---------------------------- MODULE Spec2Model ----------------------------
(***************************************************************************)
(* Model of the AI engine of provider_vault (apps/ai_service).             *)
(*                                                                         *)
(* Text is a TLA+ string handled character by character (Len, SubSeq and   *)
(* \o on strings), so the parsing code is modelled by what it does to the  *)
(* characters.  The two collaborators of the engine are inputs of every    *)
(* call: the outcome of each completion request (a reply text, a reply     *)
(* without content, or an exception) and the provider table the accessors  *)
(* of db_client.py read (or an exception raised by an accessor).           *)
(***************************************************************************)
EXTENDS Integers, Sequences, FiniteSets, TLC

VARIABLES
    phase,        \* "idle": no call in progress; "done": a call has returned or raised
    fn,           \* name of the entry point called last
    args,         \* the arguments and collaborator outcomes of that call
    result,       \* the value it returned (a Python dict is a record)
    raised,       \* TRUE when an exception left the entry point
    heap,         \* the Python list objects alive around an FAQ call: id -> contents
    faq_history,  \* interactive_demo's variable: a list id, or NoRef for None
    log,          \* every (question, answer) exchange of the chat that succeeded
    calls,        \* the requests the call made to its collaborators, in order
    threads,      \* the faq_chatbot invocations that run interleaved: their locals
    db            \* the db_client accessor in progress and the connections open

vars == <<phase, fn, args, result, raised, heap, faq_history, log, calls,
          threads, db>>

(***************************************************************************)
(* Bounds of the model.                                                    *)
(***************************************************************************)
MaxLines == 2      \* lines of a completion reply
MaxLimit == 3      \* the caller's limit of semantic_search_providers
MaxDbCalls == 2    \* repository calls of one invocation that may raise
MaxHist == 11      \* entries of a caller-supplied conversation history
MaxTurns == 6      \* turns of one interactive chat

(***************************************************************************)
(* Constants of the program.                                               *)
(***************************************************************************)
TRIAGE_STATE_LIMIT == 50     \* get_providers_by_state(location_state, limit=50)
TRIAGE_SAMPLE == 5           \* matching_providers[:5]
SEARCH_SPECIALTY_LIMIT == 20 \* get_providers_by_specialty(specialty, limit=20)
HISTORY_CAP == 10            \* updated_history[-10:]
FOLLOW_UP_CAP == 3           \* follow_ups[:3]
PROMPT_SPECIALTIES == 20     \* available_specialties[:20] in the system prompt
FAQ_SPECIALTY_LIMIT == 10    \* get_providers_by_specialty(specialty, limit=10)
FAQ_SAMPLE == 3              \* providers[:3]
FAQ_STATE_LIMIT == 50        \* get_providers_by_state(state, limit=50)

(***************************************************************************)
(* Python values.                                                          *)
(***************************************************************************)
None == "<None>"      \* Python None where a string may stand
NoRef == 0            \* Python None where a list may stand

Min(S) == CHOOSE x \in S : \A y \in S : x <= y

\* s[:n]: the first n elements, or all but the last -n when n is negative
Take(s, n) ==
    IF n >= 0 THEN SubSeq(s, 1, IF n < Len(s) THEN n ELSE Len(s))
    ELSE SubSeq(s, 1, Len(s) + n)

\* s[-n:] for n > 0: the last n elements
LastN(s, n) == SubSeq(s, (IF Len(s) > n THEN Len(s) - n ELSE 0) + 1, Len(s))

(***************************************************************************)
(* Python str methods, on characters.                                      *)
(***************************************************************************)
CharAt(s, i) == SubSeq(s, i, i)

IsSpace(c) == c \in {" ", "\t", "\n", "\r"}

RECURSIVE LStrip(_)
LStrip(s) ==
    IF Len(s) > 0 /\ IsSpace(CharAt(s, 1)) THEN LStrip(Tail(s)) ELSE s

RECURSIVE RStrip(_)
RStrip(s) ==
    IF Len(s) > 0 /\ IsSpace(CharAt(s, Len(s)))
    THEN RStrip(SubSeq(s, 1, Len(s) - 1))
    ELSE s

\* str.strip()
Strip(s) == RStrip(LStrip(s))

\* str.startswith(prefix)
StartsWith(s, prefix) ==
    Len(s) >= Len(prefix) /\ SubSeq(s, 1, Len(prefix)) = prefix

\* str.replace(old, ''): every non-overlapping occurrence, left to right
RECURSIVE Replace(_, _)
Replace(s, old) ==
    IF Len(s) < Len(old) \/ Len(s) = 0 THEN s
    ELSE IF StartsWith(s, old)
         THEN Replace(SubSeq(s, Len(old) + 1, Len(s)), old)
         ELSE CharAt(s, 1) \o Replace(Tail(s), old)

\* str.split(sep) for a one-character separator: always at least one element
RECURSIVE Split(_, _)
Split(s, sep) ==
    LET at == {i \in 1..Len(s) : CharAt(s, i) = sep}
    IN  IF at = {} THEN <<s>>
        ELSE <<SubSeq(s, 1, Min(at) - 1)>>
                 \o Split(SubSeq(s, Min(at) + 1, Len(s)), sep)

UPPERCASE == "ABCDEFGHIJKLMNOPQRSTUVWXYZ"
LOWERCASE == "abcdefghijklmnopqrstuvwxyz"

\* each upper-case letter's lower-case letter
LowerOf ==
    [c \in {CharAt(UPPERCASE, i) : i \in 1..Len(UPPERCASE)} |->
        CharAt(LOWERCASE, CHOOSE i \in 1..Len(UPPERCASE) : CharAt(UPPERCASE, i) = c)]

LowerChar(c) == IF c \in DOMAIN LowerOf THEN LowerOf[c] ELSE c

\* str.lower()
RECURSIVE Lower(_)
Lower(s) ==
    IF Len(s) = 0 THEN s ELSE LowerChar(CharAt(s, 1)) \o Lower(Tail(s))

\* [x.strip() for x in parts]
StripEach(parts) == [i \in 1..Len(parts) |-> Strip(parts[i])]

\* sub in s
Contains(s, sub) ==
    \E i \in 1..(Len(s) - Len(sub) + 1) : SubSeq(s, i, i + Len(sub) - 1) = sub

\* s.lstrip(chars)
RECURSIVE LStripChars(_, _)
LStripChars(s, chars) ==
    IF Len(s) > 0 /\ Contains(chars, CharAt(s, 1))
    THEN LStripChars(Tail(s), chars)
    ELSE s


(***************************************************************************)
(* The collaborators.                                                      *)
(*                                                                         *)
(* A completion outcome is [kind, content]: kind "ok" carries the reply    *)
(* text, kind "none" is a reply whose content is None, kind "raise" is an  *)
(* exception of client.chat.completions.create.                            *)
(*                                                                         *)
(* A provider row is [npi, specialty, state]; a column may hold NULL       *)
(* (None).  name, city, address and phone are carried by the real rows but *)
(* read by no decision of the engine.  A table is the sequence of rows in  *)
(* the order the database returns them.                                    *)
(***************************************************************************)
MSG_API == "API Error"
MSG_DB == "connection refused"
MSG_NONE_STRIP == "'NoneType' object has no attribute 'strip'"
MSG_NONE_LOWER == "'NoneType' object has no attribute 'lower'"
MSG_JOIN == "sequence item: expected str instance, NoneType found"

\* str(e) of the exception a completion outcome leads to
CompletionError(completion) ==
    IF completion.kind = "raise" THEN MSG_API ELSE MSG_NONE_STRIP

\* response.choices[0].message.content.strip() raises unless there is a text
CompletionFails(completion) == completion.kind # "ok"

\* db_client.get_providers_by_specialty: WHERE specialty = %s LIMIT %s
get_providers_by_specialty(tbl, specialty, limit) ==
    Take(SelectSeq(tbl, LAMBDA p : p.specialty # None /\ p.specialty = specialty), limit)

\* db_client.get_providers_by_state: WHERE state = %s LIMIT %s
get_providers_by_state(tbl, state, limit) ==
    Take(SelectSeq(tbl, LAMBDA p : p.state # None /\ p.state = state), limit)

\* What an entry point hands to its caller: a value, or an exception.
Returns(v) == [raised |-> FALSE, value |-> v]
Raises(msg) == [raised |-> TRUE, value |-> [exception |-> msg]]

(***************************************************************************)
(* generate_specialty_description, suggest_related_specialties and         *)
(* analyze_provider_distribution                                           *)
(***************************************************************************)
generate_specialty_description(specialty, completion) ==
    IF CompletionFails(completion)
    THEN Returns("Error generating description: " \o CompletionError(completion))
    ELSE Returns(Strip(completion.content))

\* line[0].isdigit()
IsDigit(c) == Contains("0123456789", c)

\* specialty_name, reason = clean_line.split(':', 1), both stripped
RelatedPair(clean_line) ==
    LET colon == Min({i \in 1..Len(clean_line) : CharAt(clean_line, i) = ":"})
    IN  [specialty |-> Strip(SubSeq(clean_line, 1, colon - 1)),
         reason |-> Strip(SubSeq(clean_line, colon + 1, Len(clean_line)))]

\* the loop that collects suggestions from the lines of the reply
RECURSIVE RelatedSuggestions(_)
RelatedSuggestions(lines) ==
    IF Len(lines) = 0 THEN <<>>
    ELSE LET line == Strip(Head(lines))
             clean_line == LStripChars(line, "0123456789.-) ")
         IN  (IF Len(line) > 0
                  /\ (IsDigit(CharAt(line, 1)) \/ StartsWith(line, "-"))
                  /\ Contains(clean_line, ":")
              THEN <<RelatedPair(clean_line)>>
              ELSE <<>>)
                 \o RelatedSuggestions(Tail(lines))

\* a result that is not cut to count items
suggest_related_specialties_ReturnsAll(specialty, count, completion) ==
    IF CompletionFails(completion)
    THEN Returns(<<[specialty |-> "Error", reason |-> CompletionError(completion)]>>)
    ELSE Returns(RelatedSuggestions(Split(Strip(completion.content), "\n")))

suggest_related_specialties(specialty, count, completion) ==
    IF CompletionFails(completion)
    THEN Returns(<<[specialty |-> "Error", reason |-> CompletionError(completion)]>>)
    ELSE Returns(Take(RelatedSuggestions(Split(Strip(completion.content), "\n")),
                      count))

\* The counts by specialty and by state are read with p.get(key, 'Unknown'),
\* which raises for no row, and go into the prompt only.
analyze_provider_distribution(providers, completion) ==
    IF Len(providers) = 0 THEN Returns("No providers to analyze.")
    ELSE IF CompletionFails(completion)
    THEN Returns("Error analyzing providers: " \o CompletionError(completion))
    ELSE Returns(Strip(completion.content))

(***************************************************************************)
(* recommend_provider_by_symptoms                                          *)
(***************************************************************************)
DISCLAIMER == "This is not medical advice. Always consult with a qualified healthcare provider for proper diagnosis and treatment."
DISCLAIMER_ERROR == "System error. Please consult a healthcare provider directly."

\* defaults that recommend a specialty when the reply names none
TriageDefaults_GeneralPractice ==
    [specialties |-> <<"General Practice">>, reasoning |-> "", urgency |-> "medium",
     emergency_action |-> None]

\* the defaults set before the parsing loop
TriageDefaults ==
    [specialties |-> <<>>, reasoning |-> "", urgency |-> "medium",
     emergency_action |-> None]

\* a parser that keeps the narration around the tags as reasoning
TriageLine_KeepsNarration(acc, line) ==
    IF StartsWith(line, "SPECIALTIES:")
    THEN [acc EXCEPT !.specialties =
              StripEach(Split(Strip(Replace(line, "SPECIALTIES:")), ","))]
    ELSE IF StartsWith(line, "REASONING:")
    THEN [acc EXCEPT !.reasoning = Strip(Replace(line, "REASONING:"))]
    ELSE IF StartsWith(line, "URGENCY:")
    THEN [acc EXCEPT !.urgency = Lower(Strip(Replace(line, "URGENCY:")))]
    ELSE IF StartsWith(line, "EMERGENCY_ACTION:")
    THEN [acc EXCEPT !.emergency_action =
              Strip(Replace(line, "EMERGENCY_ACTION:"))]
    ELSE [acc EXCEPT !.reasoning = @ \o line]

\* a parser that merges the specialties of repeated SPECIALTIES lines
TriageLine_MergesRepeats(acc, line) ==
    IF StartsWith(line, "SPECIALTIES:")
    THEN [acc EXCEPT !.specialties =
              @ \o StripEach(Split(Strip(Replace(line, "SPECIALTIES:")), ","))]
    ELSE IF StartsWith(line, "REASONING:")
    THEN [acc EXCEPT !.reasoning = Strip(Replace(line, "REASONING:"))]
    ELSE IF StartsWith(line, "URGENCY:")
    THEN [acc EXCEPT !.urgency = Lower(Strip(Replace(line, "URGENCY:")))]
    ELSE IF StartsWith(line, "EMERGENCY_ACTION:")
    THEN [acc EXCEPT !.emergency_action =
              Strip(Replace(line, "EMERGENCY_ACTION:"))]
    ELSE acc

\* one pass of the loop body over a stripped line
TriageLine(acc, line) ==
    IF StartsWith(line, "SPECIALTIES:")
    THEN [acc EXCEPT !.specialties =
              StripEach(Split(Strip(Replace(line, "SPECIALTIES:")), ","))]
    ELSE IF StartsWith(line, "REASONING:")
    THEN [acc EXCEPT !.reasoning = Strip(Replace(line, "REASONING:"))]
    ELSE IF StartsWith(line, "URGENCY:")
    THEN [acc EXCEPT !.urgency = Lower(Strip(Replace(line, "URGENCY:")))]
    ELSE IF StartsWith(line, "EMERGENCY_ACTION:")
    THEN [acc EXCEPT !.emergency_action =
              Strip(Replace(line, "EMERGENCY_ACTION:"))]
    ELSE acc

\* for line in content.split('\n'): line = line.strip(); ...
RECURSIVE TriageParse(_, _)
TriageParse(lines, acc) ==
    IF Len(lines) = 0 THEN acc
    ELSE TriageParse(Tail(lines), TriageLine(acc, Strip(Head(lines))))

\* 'emergency_action': emergency_action if emergency_action != "N/A" else None
TriageAction(emergency_action) ==
    IF emergency_action # "N/A" THEN emergency_action ELSE None

\* the result dict built from the parsed fields
TriageResult(p) ==
    [recommended_specialties |-> p.specialties,
     reasoning |-> p.reasoning,
     urgency_level |-> p.urgency,
     emergency_action |-> TriageAction(p.emergency_action),
     disclaimer |-> DISCLAIMER,
     available_providers |-> <<>>]

\* the dict returned by the outer except
TriageErrorResult(msg) ==
    [error |-> "Error processing symptoms: " \o msg,
     recommended_specialties |-> <<>>,
     reasoning |-> "",
     urgency_level |-> "unknown",
     disclaimer |-> DISCLAIMER_ERROR]

\* a lookup whose repository failure reaches the outer handler
TriageLookup_Aborts(res, location_state, tbl, dbRaises) ==
    IF 1 \in dbRaises
    THEN TriageErrorResult(MSG_DB)
    ELSE LET primary_specialty == res.recommended_specialties[1]
             providers == get_providers_by_state(tbl, location_state,
                                                 TRIAGE_STATE_LIMIT)
             matching_providers ==
                 SelectSeq(providers,
                           LAMBDA p : Lower(p.specialty) = Lower(primary_specialty))
         IN  IF \E i \in 1..Len(providers) : providers[i].specialty = None
             THEN res @@ [provider_search_error |-> MSG_NONE_LOWER]
             ELSE [res EXCEPT !.available_providers =
                       Take(matching_providers, TRIAGE_SAMPLE)]
                  @@ [location_checked |-> location_state]

\* a lookup that returns every matching provider of the state
TriageLookup_WholeList(res, location_state, tbl, dbRaises) ==
    IF 1 \in dbRaises
    THEN res @@ [provider_search_error |-> MSG_DB]
    ELSE LET primary_specialty == res.recommended_specialties[1]
             providers == get_providers_by_state(tbl, location_state,
                                                 TRIAGE_STATE_LIMIT)
             matching_providers ==
                 SelectSeq(providers,
                           LAMBDA p : Lower(p.specialty) = Lower(primary_specialty))
         IN  IF \E i \in 1..Len(providers) : providers[i].specialty = None
             THEN res @@ [provider_search_error |-> MSG_NONE_LOWER]
             ELSE [res EXCEPT !.available_providers = matching_providers]
                  @@ [location_checked |-> location_state]

\* the provider lookup: if location_state and specialties: try ... except
TriageLookup(res, location_state, tbl, dbRaises) ==
    IF 1 \in dbRaises
    THEN res @@ [provider_search_error |-> MSG_DB]
    ELSE LET primary_specialty == res.recommended_specialties[1]
             providers == get_providers_by_state(tbl, location_state,
                                                 TRIAGE_STATE_LIMIT)
             matching_providers ==
                 SelectSeq(providers,
                           LAMBDA p : Lower(p.specialty) = Lower(primary_specialty))
         IN  IF \E i \in 1..Len(providers) : providers[i].specialty = None
             THEN res @@ [provider_search_error |-> MSG_NONE_LOWER]
             ELSE [res EXCEPT !.available_providers =
                       Take(matching_providers, TRIAGE_SAMPLE)]
                  @@ [location_checked |-> location_state]

recommend_provider_by_symptoms(symptoms, location_state, completion, tbl, dbRaises) ==
    IF CompletionFails(completion)
    THEN Returns(TriageErrorResult(CompletionError(completion)))
    ELSE LET content == Strip(completion.content)
             res == TriageResult(TriageParse(Split(content, "\n"), TriageDefaults))
         IN  IF location_state # None /\ location_state # ""
                /\ Len(res.recommended_specialties) > 0
             THEN Returns(TriageLookup(res, location_state, tbl, dbRaises))
             ELSE Returns(res)

(***************************************************************************)
(* semantic_search_providers                                               *)
(***************************************************************************)
SearchDefaults == [intent |-> "", key_terms |-> <<>>, specialties |-> <<>>]

\* one pass of the loop body over a stripped line
SearchLine(acc, line) ==
    IF StartsWith(line, "INTENT:")
    THEN [acc EXCEPT !.intent = Strip(Replace(line, "INTENT:"))]
    ELSE IF StartsWith(line, "KEY_TERMS:")
    THEN [acc EXCEPT !.key_terms =
              StripEach(Split(Strip(Replace(line, "KEY_TERMS:")), ","))]
    ELSE IF StartsWith(line, "SPECIALTIES:")
    THEN [acc EXCEPT !.specialties =
              StripEach(Split(Strip(Replace(line, "SPECIALTIES:")), ","))]
    ELSE acc

RECURSIVE SearchParse(_, _)
SearchParse(lines, acc) ==
    IF Len(lines) = 0 THEN acc
    ELSE SearchParse(Tail(lines), SearchLine(acc, Strip(Head(lines))))

\* the k-th lookup of the loop: the rows it adds to all_matches (none when it
\* raises: except: pass)
SearchLookup(tbl, specialty, k, dbRaises) ==
    IF k \in dbRaises THEN <<>>
    ELSE get_providers_by_specialty(tbl, specialty, SEARCH_SPECIALTY_LIMIT)

\* a loop that a failing lookup ends
RECURSIVE SearchAllMatches_StopsAtFailure(_, _, _, _)
SearchAllMatches_StopsAtFailure(tbl, specialties, k, dbRaises) ==
    IF k > Len(specialties) \/ k \in dbRaises THEN <<>>
    ELSE SearchLookup(tbl, specialties[k], k, dbRaises)
             \o SearchAllMatches_StopsAtFailure(tbl, specialties, k + 1, dbRaises)

\* for specialty in specialties: ... all_matches.extend(providers)
RECURSIVE SearchAllMatches(_, _, _, _)
SearchAllMatches(tbl, specialties, k, dbRaises) ==
    IF k > Len(specialties) THEN <<>>
    ELSE SearchLookup(tbl, specialties[k], k, dbRaises)
             \o SearchAllMatches(tbl, specialties, k + 1, dbRaises)

\* a merge that forgets to deduplicate
SearchUnique_KeepAll(all_matches, seen_npis, unique_providers) ==
    unique_providers \o all_matches

\* the deduplication loop over all_matches
RECURSIVE SearchUnique(_, _, _)
SearchUnique(all_matches, seen_npis, unique_providers) ==
    IF Len(all_matches) = 0 THEN unique_providers
    ELSE LET p == Head(all_matches)
         IN  IF p.npi \notin seen_npis
             THEN SearchUnique(Tail(all_matches), seen_npis \cup {p.npi},
                               Append(unique_providers, p))
             ELSE SearchUnique(Tail(all_matches), seen_npis, unique_providers)

\* a result that counts the providers after the truncation
SearchResult_CountsReturned(p, unique_providers, limit) ==
    [understood_intent |-> p.intent,
     search_terms |-> p.key_terms,
     recommended_specialties |-> p.specialties,
     providers |-> Take(unique_providers, limit),
     total_found |-> Len(Take(unique_providers, limit))]

\* the dict returned on success
SearchResult(p, unique_providers, limit) ==
    [understood_intent |-> p.intent,
     search_terms |-> p.key_terms,
     recommended_specialties |-> p.specialties,
     providers |-> Take(unique_providers, limit),
     total_found |-> Len(unique_providers)]

\* the dict returned by the except
SearchErrorResult(msg) ==
    [error |-> "Error in semantic search: " \o msg,
     understood_intent |-> "",
     search_terms |-> <<>>,
     recommended_specialties |-> <<>>,
     providers |-> <<>>,
     total_found |-> 0]

semantic_search_providers(query, limit, completion, tbl, dbRaises) ==
    IF CompletionFails(completion)
    THEN Returns(SearchErrorResult(CompletionError(completion)))
    ELSE LET content == Strip(completion.content)
             p == SearchParse(Split(content, "\n"), SearchDefaults)
             all_matches == SearchAllMatches(tbl, p.specialties, 1, dbRaises)
         IN  Returns(SearchResult(p, SearchUnique(all_matches, {}, <<>>), limit))

(***************************************************************************)
(* faq_chatbot                                                             *)
(*                                                                         *)
(* Python lists are objects: heap[id] holds the contents of list id, and a *)
(* variable holds an id.  `a + b` and a slice make a new object; extend    *)
(* and append change the object they are called on.                        *)
(***************************************************************************)
\* a new list object holding items; its id is the length of the new heap
Alloc(h, items) == Append(h, items)

\* lst.extend(items) and lst.append(item), in place
Extend(h, lst, items) == [h EXCEPT ![lst] = @ \o items]

\* the specialty names of the model's tables, in the order ORDER BY gives them
SpecialtyOrder == <<"Cardiology", "Neurology">>

\* db_client.get_all_specialties: SELECT DISTINCT specialty ORDER BY specialty
\* (ascending order puts a NULL last)
get_all_specialties(tbl) ==
    SelectSeq(SpecialtyOrder,
              LAMBDA name : \E i \in 1..Len(tbl) : tbl[i].specialty = name)
        \o (IF \E i \in 1..Len(tbl) : tbl[i].specialty = None
            THEN <<None>> ELSE <<>>)

\* db_client.test_connection: COUNT(*), COUNT(DISTINCT specialty), COUNT(DISTINCT state)
test_connection(tbl) ==
    [total_providers |-> Len(tbl),
     total_specialties |->
         Cardinality({tbl[i].specialty : i \in 1..Len(tbl)} \ {None}),
     total_states |-> Cardinality({tbl[i].state : i \in 1..Len(tbl)} \ {None}),
     connection_status |-> "Connected successfully!"]

\* states = ['CA', 'TX', 'NY', 'FL', 'IL', 'PA', 'OH', 'GA', 'NC', 'MI']
FAQ_STATES == <<"CA", "TX", "NY", "FL", "IL", "PA", "OH", "GA", "NC", "MI">>

FaqDbError(msg) == [error |-> "Database query error: " \o msg]

\* if state.lower() in question_lower or f" {state} " in f" {question_lower} "
FaqStateMentioned(state, question_lower) ==
    \/ Contains(question_lower, Lower(state))
    \/ Contains(" " \o question_lower \o " ", " " \o state \o " ")

\* a loop over states that goes on after a match: the last match is recorded
FaqStateStep_LastMatch(context_data, question_lower, tbl, dbRaises, k) ==
    LET hits == {i \in 1..Len(FAQ_STATES) :
                    FaqStateMentioned(FAQ_STATES[i], question_lower)}
    IN  IF hits = {} THEN context_data
        ELSE IF k \in dbRaises THEN context_data @@ FaqDbError(MSG_DB)
        ELSE LET state == FAQ_STATES[CHOOSE i \in hits : \A j \in hits : j <= i]
                 state_providers == get_providers_by_state(tbl, state, FAQ_STATE_LIMIT)
             IN  context_data @@
                     [state_data |-> [state |-> state,
                                      provider_count |-> Len(state_providers)]]

\* the loop over states; k is the number of the repository call it makes
FaqStateStep(context_data, question_lower, tbl, dbRaises, k) ==
    LET hits == {i \in 1..Len(FAQ_STATES) :
                    FaqStateMentioned(FAQ_STATES[i], question_lower)}
    IN  IF hits = {} THEN context_data
        ELSE IF k \in dbRaises THEN context_data @@ FaqDbError(MSG_DB)
        ELSE LET state == FAQ_STATES[Min(hits)]
                 state_providers == get_providers_by_state(tbl, state, FAQ_STATE_LIMIT)
             IN  context_data @@
                     [state_data |-> [state |-> state,
                                      provider_count |-> Len(state_providers)]]

\* the loop over specialties, then the loop over states
FaqSpecialtyStep(context_data, question_lower, tbl, dbRaises) ==
    LET specialties == context_data.available_specialties
        \* the first specialty at which the loop stops: a None (lower() raises)
        \* or a name the question mentions
        hits == {i \in 1..Len(specialties) :
                    \/ specialties[i] = None
                    \/ Contains(question_lower, Lower(specialties[i]))}
    IN  IF hits = {}
        THEN FaqStateStep(context_data, question_lower, tbl, dbRaises, 3)
        ELSE LET specialty == specialties[Min(hits)]
                 providers == get_providers_by_specialty(tbl, specialty,
                                                         FAQ_SPECIALTY_LIMIT)
             IN  IF specialty = None
                 THEN context_data @@ FaqDbError(MSG_NONE_LOWER)
                 ELSE IF 3 \in dbRaises
                 THEN context_data @@ FaqDbError(MSG_DB)
                 ELSE FaqStateStep(
                          context_data @@
                              [specialty_providers |->
                                   [specialty |-> specialty,
                                    count |-> Len(providers),
                                    sample_providers |-> Take(providers, FAQ_SAMPLE)]],
                          question_lower, tbl, dbRaises, 4)

\* the try block that fills context_data
FaqGrounding(question, tbl, dbRaises) ==
    IF 1 \in dbRaises THEN FaqDbError(MSG_DB)
    ELSE LET with_stats == [network_stats |-> test_connection(tbl)]
         IN  IF 2 \in dbRaises THEN with_stats @@ FaqDbError(MSG_DB)
             ELSE FaqSpecialtyStep(
                      with_stats @@ [available_specialties |-> get_all_specialties(tbl)],
                      Lower(question), tbl, dbRaises)

\* building system_prompt raises when ', '.join(available_specialties[:20])
\* meets a None
FaqPromptRaises(context_data) ==
    /\ "available_specialties" \in DOMAIN context_data
    /\ LET shown == Take(context_data.available_specialties, PROMPT_SPECIALTIES)
       IN  \E i \in 1..Len(shown) : shown[i] = None

\* the three characters of the second bullet the source accepts (they are not
\* ASCII in the source), written with three ASCII characters no text uses
BULLET == "^~|"

\* the loop that collects follow_ups from the lines of the second reply
RECURSIVE FaqFollowUps(_)
FaqFollowUps(lines) ==
    IF Len(lines) = 0 THEN <<>>
    ELSE LET line == Strip(Head(lines))
         IN  (IF Len(line) > 0 /\ (StartsWith(line, "-") \/ StartsWith(line, BULLET))
              THEN <<Strip(LStripChars(line, "-" \o BULLET \o " "))>>
              ELSE <<>>)
                 \o FaqFollowUps(Tail(lines))

\* the new turns must not land in the caller's list
FaqAppendTurns_InPlace(h, conversation_history, question, answer) ==
    [heap |-> Extend(h, conversation_history,
                     <<[role |-> "user", content |-> question],
                       [role |-> "assistant", content |-> answer]>>),
     ref |-> conversation_history]

\* updated_history = conversation_history + [user turn, assistant turn]:
\* `+` makes a new list
FaqAppendTurns(h, conversation_history, question, answer) ==
    [heap |-> Alloc(h, h[conversation_history]
                           \o <<[role |-> "user", content |-> question],
                                [role |-> "assistant", content |-> answer]>>),
     ref |-> Len(h) + 1]

\* a window of one entry less than the cap
FaqTruncate_KeepsNine(h, updated_history) ==
    IF Len(h[updated_history]) > HISTORY_CAP
    THEN [heap |-> Alloc(h, LastN(h[updated_history], HISTORY_CAP - 1)),
          ref |-> Len(h) + 1]
    ELSE [heap |-> h, ref |-> updated_history]

\* the window must keep the newest turns
FaqTruncate_KeepsOldest(h, updated_history) ==
    IF Len(h[updated_history]) > HISTORY_CAP
    THEN [heap |-> Alloc(h, Take(h[updated_history], HISTORY_CAP)),
          ref |-> Len(h) + 1]
    ELSE [heap |-> h, ref |-> updated_history]

\* the history must not grow without bound
FaqTruncate_Never(h, updated_history) ==
    [heap |-> h, ref |-> updated_history]

\* if len(updated_history) > 10: updated_history = updated_history[-10:]
\* (the slice is a new list)
FaqTruncate(h, updated_history) ==
    IF Len(h[updated_history]) > HISTORY_CAP
    THEN [heap |-> Alloc(h, LastN(h[updated_history], HISTORY_CAP)),
          ref |-> Len(h) + 1]
    ELSE [heap |-> h, ref |-> updated_history]

\* the dict returned by the except around the two completion requests
FaqErrorResult(msg, context_data, conversation_history) ==
    [answer |-> "I apologize, but I encountered an error: " \o msg,
     data_retrieved |-> context_data,
     follow_up_suggestions |-> <<>>,
     conversation_history |-> conversation_history,
     error |-> msg]

\* a result that returns every follow-up it parsed
FaqAnswer_NoCap(h, conversation_history, question, context_data, completion, follow_up) ==
    IF CompletionFails(completion)
    THEN Returns(FaqErrorResult(CompletionError(completion), context_data,
                                conversation_history)) @@ [heap |-> h]
    ELSE IF CompletionFails(follow_up)
    THEN Returns(FaqErrorResult(CompletionError(follow_up), context_data,
                                conversation_history)) @@ [heap |-> h]
    ELSE LET answer == Strip(completion.content)
             follow_ups == FaqFollowUps(Split(Strip(follow_up.content), "\n"))
             appended == FaqAppendTurns(h, conversation_history, question, answer)
             updated == FaqTruncate(appended.heap, appended.ref)
         IN  Returns([answer |-> answer,
                      data_retrieved |-> context_data,
                      follow_up_suggestions |-> follow_ups,
                      conversation_history |-> updated.ref])
                 @@ [heap |-> updated.heap]

\* a turn that keeps the answer when only the follow-up request fails
FaqAnswer_KeepsAnswer(h, conversation_history, question, context_data, completion, follow_up) ==
    IF CompletionFails(completion)
    THEN Returns(FaqErrorResult(CompletionError(completion), context_data,
                                conversation_history)) @@ [heap |-> h]
    ELSE LET answer == Strip(completion.content)
             follow_ups == IF CompletionFails(follow_up) THEN <<>>
                           ELSE FaqFollowUps(Split(Strip(follow_up.content), "\n"))
             appended == FaqAppendTurns(h, conversation_history, question, answer)
             updated == FaqTruncate(appended.heap, appended.ref)
         IN  Returns([answer |-> answer,
                      data_retrieved |-> context_data,
                      follow_up_suggestions |-> Take(follow_ups, FOLLOW_UP_CAP),
                      conversation_history |-> updated.ref])
                 @@ [heap |-> updated.heap]

\* the two completion requests and what follows them
FaqAnswer(h, conversation_history, question, context_data, completion, follow_up) ==
    IF CompletionFails(completion)
    THEN Returns(FaqErrorResult(CompletionError(completion), context_data,
                                conversation_history)) @@ [heap |-> h]
    ELSE IF CompletionFails(follow_up)
    THEN Returns(FaqErrorResult(CompletionError(follow_up), context_data,
                                conversation_history)) @@ [heap |-> h]
    ELSE LET answer == Strip(completion.content)
             follow_ups == FaqFollowUps(Split(Strip(follow_up.content), "\n"))
             appended == FaqAppendTurns(h, conversation_history, question, answer)
             updated == FaqTruncate(appended.heap, appended.ref)
         IN  Returns([answer |-> answer,
                      data_retrieved |-> context_data,
                      follow_up_suggestions |-> Take(follow_ups, FOLLOW_UP_CAP),
                      conversation_history |-> updated.ref])
                 @@ [heap |-> updated.heap]

\* h is the heap at the call; conversation_history is a list id or NoRef
faq_chatbot(question, conversation_history, h, tbl, dbRaises, completion, follow_up) ==
    LET \* if conversation_history is None: conversation_history = []
        h1 == IF conversation_history = NoRef THEN Alloc(h, <<>>) ELSE h
        history == IF conversation_history = NoRef THEN Len(h1)
                   ELSE conversation_history
        context_data == FaqGrounding(question, tbl, dbRaises)
        \* messages = [system]; messages.extend(history); messages.append(user)
        h2 == Alloc(h1, <<[role |-> "system", content |-> "system prompt"]>>)
        messages == Len(h2)
        h3 == Extend(h2, messages, h2[history])
        h4 == Extend(h3, messages, <<[role |-> "user", content |-> question]>>)
    IN  IF FaqPromptRaises(context_data)
        THEN Raises(MSG_JOIN) @@ [heap |-> h1]
        ELSE FaqAnswer(h4, history, question, context_data, completion, follow_up)

(***************************************************************************)
(* The requests an entry point makes to its collaborators, in order: the   *)
(* completion request is CREATE, a repository request is the name of the   *)
(* accessor of db_client.                                                  *)
(***************************************************************************)
CREATE == "client.chat.completions.create"

DescribeCalls(specialty, completion) == <<CREATE>>

RelatedCalls(specialty, count, completion) == <<CREATE>>

\* the early return for an empty list comes before the request
AnalyzeCalls(providers, completion) ==
    IF Len(providers) = 0 THEN <<>> ELSE <<CREATE>>

\* a lookup that is made whether or not a location was given
TriageCalls_IgnoresLocation(symptoms, location_state, completion, tbl, dbRaises) ==
    <<CREATE>> \o
        (IF CompletionFails(completion) THEN <<>>
         ELSE LET p == TriageParse(Split(Strip(completion.content), "\n"),
                                   TriageDefaults)
              IN  IF Len(p.specialties) > 0
                  THEN <<"get_providers_by_state">>
                  ELSE <<>>)

\* the completion request, then the lookup when a location and a specialty
\* are there
TriageCalls(symptoms, location_state, completion, tbl, dbRaises) ==
    <<CREATE>> \o
        (IF CompletionFails(completion) THEN <<>>
         ELSE LET p == TriageParse(Split(Strip(completion.content), "\n"),
                                   TriageDefaults)
              IN  IF location_state # None /\ location_state # ""
                     /\ Len(p.specialties) > 0
                  THEN <<"get_providers_by_state">>
                  ELSE <<>>)

\* a search that asks for a completion once more after a failure
SearchCalls_RetriesOnce(query, limit, completion, tbl, dbRaises) ==
    <<CREATE>> \o
        (IF CompletionFails(completion) THEN <<CREATE>>
         ELSE LET p == SearchParse(Split(Strip(completion.content), "\n"),
                                   SearchDefaults)
              IN  [k \in 1..Len(p.specialties) |-> "get_providers_by_specialty"])

\* the completion request, then one lookup for each specialty of the reply
SearchCalls(query, limit, completion, tbl, dbRaises) ==
    <<CREATE>> \o
        (IF CompletionFails(completion) THEN <<>>
         ELSE LET p == SearchParse(Split(Strip(completion.content), "\n"),
                                   SearchDefaults)
              IN  [k \in 1..Len(p.specialties) |-> "get_providers_by_specialty"])

\* the request of the loop over states, when the question names a state
FaqStateCalls(question_lower) ==
    IF \E i \in 1..Len(FAQ_STATES) : FaqStateMentioned(FAQ_STATES[i], question_lower)
    THEN <<"get_providers_by_state">>
    ELSE <<>>

\* the requests of the try block that fills context_data: it ends at the
\* first request that raises
FaqGroundingCalls(question, tbl, dbRaises) ==
    LET question_lower == Lower(question)
        specialties == get_all_specialties(tbl)
        hits == {i \in 1..Len(specialties) :
                    \/ specialties[i] = None
                    \/ Contains(question_lower, Lower(specialties[i]))}
    IN  <<"test_connection">> \o
        (IF 1 \in dbRaises THEN <<>>
         ELSE <<"get_all_specialties">> \o
             (IF 2 \in dbRaises THEN <<>>
              ELSE IF hits = {} THEN FaqStateCalls(question_lower)
              ELSE IF specialties[Min(hits)] = None THEN <<>>
              ELSE <<"get_providers_by_specialty">> \o
                       (IF 3 \in dbRaises THEN <<>>
                        ELSE FaqStateCalls(question_lower))))

\* the grounding requests, the answer request and the follow-up request
FaqCalls(question, tbl, dbRaises, completion, follow_up) ==
    FaqGroundingCalls(question, tbl, dbRaises) \o
        (IF FaqPromptRaises(FaqGrounding(question, tbl, dbRaises)) THEN <<>>
         ELSE IF CompletionFails(completion) THEN <<CREATE>>
         ELSE <<CREATE, CREATE>>)

(***************************************************************************)
(* The inputs the calls are tried on.                                      *)
(***************************************************************************)
\* every text of at most n lines taken from L, the empty text included
RECURSIVE Texts(_, _)
Texts(L, n) ==
    IF n = 0 THEN {""}
    ELSE LET shorter == Texts(L, n - 1)
         IN  shorter \cup L
                 \cup {t \o "\n" \o l : t \in shorter \ {""}, l \in L}

Completions(L) ==
    {[kind |-> "ok", content |-> t] : t \in Texts(L, MaxLines)}
        \cup {[kind |-> "none", content |-> None],
              [kind |-> "raise", content |-> None]}

TriageLines ==
    {"SPECIALTIES: cardiology, Neurology",
     "SPECIALTIES:",
     "REASONING: see REASONING: above",
     "URGENCY: low",
     "URGENCY:  HIGH ",
     "URGENCY: critical",
     "EMERGENCY_ACTION: N/A",
     "EMERGENCY_ACTION: n/a",
     "EMERGENCY_ACTION: Call 911",
     "Here is my assessment",
     " "}

ProviderRows ==
    <<[npi |-> "A", specialty |-> "Cardiology", state |-> "TX"],
      [npi |-> "B", specialty |-> "Cardiology", state |-> "CA"],
      [npi |-> "B", specialty |-> "Neurology", state |-> "TX"],
      [npi |-> "C", specialty |-> "Neurology", state |-> "TX"],
      [npi |-> "D", specialty |-> None, state |-> "TX"]>>

\* the tables tried: the first j rows of ProviderRows
Tables == {SubSeq(ProviderRows, 1, j) : j \in 0..Len(ProviderRows)}

\* a table with more providers of one specialty in one state than the triage
\* sample holds
ManyRows ==
    <<[npi |-> "E", specialty |-> "Cardiology", state |-> "TX"],
      [npi |-> "F", specialty |-> "cardiology", state |-> "TX"],
      [npi |-> "G", specialty |-> "Neurology", state |-> "TX"],
      [npi |-> "H", specialty |-> "CARDIOLOGY", state |-> "TX"],
      [npi |-> "I", specialty |-> "Cardiology", state |-> "CA"],
      [npi |-> "J", specialty |-> "Cardiology", state |-> "TX"],
      [npi |-> "K", specialty |-> "Cardiology", state |-> "TX"],
      [npi |-> "L", specialty |-> "Cardiology", state |-> "TX"]>>

TriageTables == Tables \cup {ManyRows}

Locations == {None, "", "TX"}

SearchLines ==
    {"INTENT: find a heart doctor",
     "KEY_TERMS: heart, chest",
     "SPECIALTIES: Cardiology, Neurology",
     "SPECIALTIES:Neurology,Cardiology",
     "SPECIALTIES: Neurology, Neurology",
     "SPECIALTIES: Podiatry"}

Limits == -1..MaxLimit

\* the sets of call numbers at which the repository raises
FailSets == SUBSET (1..MaxDbCalls)

Questions == {"How many cardiology providers?", "Any neurology or Cardiology doctors in TX?"}

AnswerReplies ==
    {[kind |-> "ok", content |-> " We have 8 cardiologists.\n"],
     [kind |-> "none", content |-> None],
     [kind |-> "raise", content |-> None]}

FollowUpLines == {"- Where are they?", "-- Which states? ", "Here are some:"}

\* replies of the follow-up request with more bulleted lines than are kept
LongFollowUps ==
    {[kind |-> "ok",
      content |-> "Sure:\n- One?\n" \o BULLET \o " Two?\n\n -Three? \n* Not one\n- Four?"],
     [kind |-> "ok",
      content |-> "- One?\n- Two?\n- Three?\n- Four?\n- Five?"]}

\* turn i of a caller-supplied history
SuppliedTurn(i) ==
    [role |-> IF i % 2 = 1 THEN "user" ELSE "assistant",
     content |-> "turn " \o CharAt(LOWERCASE, i)]

\* the histories a caller supplies: None, or a list of 0..MaxHist turns
Histories ==
    {<<>>} \cup {<<[i \in 1..n |-> SuppliedTurn(i)]>> : n \in 0..MaxHist}

ChatQuestions == {"Question 1", "Question 2"}

ChatReplies ==
    {[kind |-> "ok", content |-> "Test response"],
     [kind |-> "ok", content |-> " Another response "],
     [kind |-> "raise", content |-> None]}

ChatFollowUps ==
    {[kind |-> "ok", content |-> "- Question 1?"],
     [kind |-> "raise", content |-> None]}

ChatTables == {SubSeq(ProviderRows, 1, 4), ProviderRows}

RelatedLines ==
    {"1. Neurology: shared stroke care",
     "- Radiology: imaging",
     "2) no reason given",
     "3.-) -Oncology :shared: care ",
     "10. : ",
     "Related specialties:"}

PlainReplies ==
    {[kind |-> "ok", content |-> " Cardiology is the care of the heart.\n"],
     [kind |-> "none", content |-> None],
     [kind |-> "raise", content |-> None]}

\* the repository raises at no call, or at one of the four calls of faq_chatbot
FaqFailSets == {{}, {1}, {2}, {3}, {4}}

FaqTables == {SubSeq(ProviderRows, 1, j) : j \in {0, 4, 5}}

\* no accessor of db_client is running and no connection is open
DbIdle == [pc |-> "idle", open |-> 0]

NoArgs == [none |-> TRUE]
NoResult == [none |-> TRUE]

(***************************************************************************)
(* The calls.                                                              *)
(***************************************************************************)
Init ==
    /\ phase = "idle"
    /\ fn = "none"
    /\ args = NoArgs
    /\ result = NoResult
    /\ raised = FALSE
    /\ heap = <<>>
    /\ faq_history = NoRef
    /\ log = <<>>
    /\ calls = <<>>
    /\ threads = <<>>
    /\ db = DbIdle

CallTriage ==
    /\ phase = "idle"
    /\ \E location_state \in Locations, completion \in Completions(TriageLines),
          tbl \in TriageTables, dbRaises \in {{}, {1}} :
          LET out == recommend_provider_by_symptoms("chest pain", location_state,
                                                    completion, tbl, dbRaises)
          IN  /\ phase' = "done"
              /\ fn' = "recommend_provider_by_symptoms"
              /\ args' = [symptoms |-> "chest pain", location_state |-> location_state,
                          completion |-> completion, tbl |-> tbl,
                          dbRaises |-> dbRaises]
              /\ result' = out.value
              /\ raised' = out.raised
              /\ calls' = TriageCalls("chest pain", location_state, completion,
                                      tbl, dbRaises)
    /\ UNCHANGED <<heap, faq_history, log>>
    /\ UNCHANGED <<threads, db>>

CallSearch ==
    /\ phase = "idle"
    /\ \E limit \in Limits, completion \in Completions(SearchLines),
          tbl \in Tables, dbRaises \in FailSets :
          LET out == semantic_search_providers("heart doctor", limit, completion,
                                               tbl, dbRaises)
          IN  /\ phase' = "done"
              /\ fn' = "semantic_search_providers"
              /\ args' = [query |-> "heart doctor", limit |-> limit,
                          completion |-> completion, tbl |-> tbl,
                          dbRaises |-> dbRaises]
              /\ result' = out.value
              /\ raised' = out.raised
              /\ calls' = SearchCalls("heart doctor", limit, completion, tbl,
                                      dbRaises)
    /\ UNCHANGED <<heap, faq_history, log>>
    /\ UNCHANGED <<threads, db>>

\* a call of faq_chatbot with a history the caller supplies: h holds that
\* list as object 1, or nothing when the caller passes None
CallFaq ==
    /\ phase = "idle"
    /\ \E question \in Questions, h \in Histories, tbl \in FaqTables,
          dbRaises \in FaqFailSets, completion \in AnswerReplies,
          follow_up \in Completions(FollowUpLines) \cup LongFollowUps :
          LET conversation_history == IF Len(h) = 0 THEN NoRef ELSE 1
              out == faq_chatbot(question, conversation_history, h, tbl, dbRaises,
                                 completion, follow_up)
          IN  /\ phase' = "done"
              /\ fn' = "faq_chatbot"
              /\ args' = [question |-> question,
                          conversation_history |-> conversation_history,
                          heap |-> h, tbl |-> tbl, dbRaises |-> dbRaises,
                          completion |-> completion, follow_up |-> follow_up]
              /\ result' = out.value
              /\ raised' = out.raised
              /\ heap' = out.heap
              /\ calls' = FaqCalls(question, tbl, dbRaises, completion, follow_up)
    /\ UNCHANGED <<faq_history, log>>
    /\ UNCHANGED <<threads, db>>

CallDescribe ==
    /\ phase = "idle"
    /\ \E completion \in PlainReplies :
          LET out == generate_specialty_description("Cardiology", completion)
          IN  /\ phase' = "done"
              /\ fn' = "generate_specialty_description"
              /\ args' = [specialty |-> "Cardiology", completion |-> completion]
              /\ result' = out.value
              /\ raised' = out.raised
              /\ calls' = DescribeCalls("Cardiology", completion)
    /\ UNCHANGED <<heap, faq_history, log>>
    /\ UNCHANGED <<threads, db>>

CallRelated ==
    /\ phase = "idle"
    /\ \E count \in 0..MaxLimit, completion \in Completions(RelatedLines) :
          LET out == suggest_related_specialties("Cardiology", count, completion)
          IN  /\ phase' = "done"
              /\ fn' = "suggest_related_specialties"
              /\ args' = [specialty |-> "Cardiology", count |-> count,
                          completion |-> completion]
              /\ result' = out.value
              /\ raised' = out.raised
              /\ calls' = RelatedCalls("Cardiology", count, completion)
    /\ UNCHANGED <<heap, faq_history, log>>
    /\ UNCHANGED <<threads, db>>

CallAnalyze ==
    /\ phase = "idle"
    /\ \E providers \in Tables, completion \in PlainReplies :
          LET out == analyze_provider_distribution(providers, completion)
          IN  /\ phase' = "done"
              /\ fn' = "analyze_provider_distribution"
              /\ args' = [providers |-> providers, completion |-> completion]
              /\ result' = out.value
              /\ raised' = out.raised
              /\ calls' = AnalyzeCalls(providers, completion)
    /\ UNCHANGED <<heap, faq_history, log>>
    /\ UNCHANGED <<threads, db>>

\* One faq command of interactive_demo's loop: the call with the history the
\* demo holds, then faq_history = result['conversation_history'].  An
\* exception is caught by the loop, which keeps faq_history.  Of the lists of
\* the call only the one the demo holds stays alive.
ChatTurn ==
    /\ phase = "idle"
    /\ Len(log) < MaxTurns
    /\ \E question \in ChatQuestions, tbl \in ChatTables,
          completion \in ChatReplies, follow_up \in ChatFollowUps :
          LET out == faq_chatbot(question, faq_history, heap, tbl, {},
                                 completion, follow_up)
          IN  IF out.raised
              THEN UNCHANGED <<heap, faq_history, log>>
              ELSE /\ heap' = <<out.heap[out.value.conversation_history]>>
                   /\ faq_history' = 1
                   /\ log' = IF "error" \in DOMAIN out.value THEN log
                             ELSE Append(log, [question |-> question,
                                               answer |-> out.value.answer])
    /\ UNCHANGED <<phase, fn, args, result, raised, calls>>
    /\ UNCHANGED <<threads, db>>

\* the caller has taken the result
Return ==
    /\ phase = "done"
    /\ phase' = "idle"
    /\ fn' = "none"
    /\ args' = NoArgs
    /\ result' = NoResult
    /\ raised' = FALSE
    /\ heap' = <<>>
    /\ calls' = <<>>
    /\ UNCHANGED <<faq_history, log>>
    /\ UNCHANGED <<threads, db>>

(***************************************************************************)
(* Two invocations of faq_chatbot that run interleaved.  Each has its own  *)
(* locals (threads[t]); the list objects live in the one heap, and the     *)
(* caller's history (list 1) may be passed to both.  A step is a statement *)
(* or a run of statements that touches the heap at most once.              *)
(***************************************************************************)
\* the histories the caller holds when it starts the two invocations
ConcHistories == {[i \in 1..n |-> SuppliedTurn(i)] : n \in {0, 2, 9}}

ConcReplies ==
    {[kind |-> "ok", content |-> "Test response"],
     [kind |-> "raise", content |-> None]}

\* the locals of an invocation that has not started
NewThread(question, conversation_history, supplied, tbl, completion, follow_up) ==
    [pc |-> "start",
     question |-> question,
     conversation_history |-> conversation_history,
     supplied |-> supplied,
     tbl |-> tbl,
     completion |-> completion,
     follow_up |-> follow_up,
     history |-> NoRef,
     context_data |-> NoResult,
     messages |-> NoRef,
     answer |-> "",
     follow_ups |-> <<>>,
     updated_history |-> NoRef,
     raised |-> FALSE,
     value |-> NoResult]

\* the caller starts two invocations: the first gets the caller's list, the
\* second that same list or None
ConcBegin ==
    /\ phase = "idle"
    /\ threads = <<>>
    /\ \E supplied \in ConcHistories, tbl \in ChatTables,
          q1 \in ChatQuestions, q2 \in ChatQuestions, shared \in BOOLEAN,
          c1 \in ConcReplies, c2 \in ConcReplies,
          f1 \in ChatFollowUps, f2 \in ChatFollowUps :
          /\ heap' = <<supplied>>
          /\ threads' =
                 <<NewThread(q1, 1, supplied, tbl, c1, f1),
                   NewThread(q2, IF shared THEN 1 ELSE NoRef, supplied, tbl, c2, f2)>>
    /\ UNCHANGED <<phase, fn, args, result, raised, faq_history, log, calls, db>>

\* if conversation_history is None: conversation_history = []; then the try
\* block that fills context_data
T_Ground(t) ==
    /\ t \in 1..Len(threads)
    /\ threads[t].pc = "start"
    /\ LET th == threads[t]
           fresh == th.conversation_history = NoRef
       IN  /\ heap' = IF fresh THEN Alloc(heap, <<>>) ELSE heap
           /\ threads' =
                  [threads EXCEPT
                      ![t].pc = "prompt",
                      ![t].history = IF fresh THEN Len(heap) + 1
                                     ELSE th.conversation_history,
                      ![t].context_data = FaqGrounding(th.question, th.tbl, {})]
    /\ UNCHANGED <<phase, fn, args, result, raised, faq_history, log, calls, db>>

\* system_prompt = f"..."; messages = [{"role": "system", ...}]
T_Prompt(t) ==
    /\ t \in 1..Len(threads)
    /\ threads[t].pc = "prompt"
    /\ IF FaqPromptRaises(threads[t].context_data)
       THEN /\ threads' = [threads EXCEPT ![t].pc = "done",
                                          ![t].raised = TRUE,
                                          ![t].value = [exception |-> MSG_JOIN]]
            /\ heap' = heap
       ELSE /\ heap' = Alloc(heap, <<[role |-> "system", content |-> "system prompt"]>>)
            /\ threads' = [threads EXCEPT ![t].pc = "extend",
                                          ![t].messages = Len(heap) + 1]
    /\ UNCHANGED <<phase, fn, args, result, raised, faq_history, log, calls, db>>

\* messages.extend(conversation_history); messages.append(user turn)
T_Extend(t) ==
    /\ t \in 1..Len(threads)
    /\ threads[t].pc = "extend"
    /\ LET th == threads[t]
       IN  heap' = Extend(Extend(heap, th.messages, heap[th.history]), th.messages,
                          <<[role |-> "user", content |-> th.question]>>)
    /\ threads' = [threads EXCEPT ![t].pc = "answer"]
    /\ UNCHANGED <<phase, fn, args, result, raised, faq_history, log, calls, db>>

\* the first completion request
T_Answer(t) ==
    /\ t \in 1..Len(threads)
    /\ threads[t].pc = "answer"
    /\ LET th == threads[t]
       IN  threads' =
               IF CompletionFails(th.completion)
               THEN [threads EXCEPT
                        ![t].pc = "done",
                        ![t].value = FaqErrorResult(CompletionError(th.completion),
                                                    th.context_data, th.history)]
               ELSE [threads EXCEPT ![t].pc = "followup",
                                    ![t].answer = Strip(th.completion.content)]
    /\ UNCHANGED <<phase, fn, args, result, raised, heap, faq_history, log, calls, db>>

\* the second completion request and the loop that collects follow_ups
T_FollowUp(t) ==
    /\ t \in 1..Len(threads)
    /\ threads[t].pc = "followup"
    /\ LET th == threads[t]
       IN  threads' =
               IF CompletionFails(th.follow_up)
               THEN [threads EXCEPT
                        ![t].pc = "done",
                        ![t].value = FaqErrorResult(CompletionError(th.follow_up),
                                                    th.context_data, th.history)]
               ELSE [threads EXCEPT
                        ![t].pc = "append",
                        ![t].follow_ups =
                            FaqFollowUps(Split(Strip(th.follow_up.content), "\n"))]
    /\ UNCHANGED <<phase, fn, args, result, raised, heap, faq_history, log, calls, db>>

\* updated_history = conversation_history + [user turn, assistant turn]
T_Append(t) ==
    /\ t \in 1..Len(threads)
    /\ threads[t].pc = "append"
    /\ LET th == threads[t]
           appended == FaqAppendTurns(heap, th.history, th.question, th.answer)
       IN  /\ heap' = appended.heap
           /\ threads' = [threads EXCEPT ![t].pc = "truncate",
                                         ![t].updated_history = appended.ref]
    /\ UNCHANGED <<phase, fn, args, result, raised, faq_history, log, calls, db>>

\* if len(updated_history) > 10: ...; return {...}
T_Truncate(t) ==
    /\ t \in 1..Len(threads)
    /\ threads[t].pc = "truncate"
    /\ LET th == threads[t]
           updated == FaqTruncate(heap, th.updated_history)
       IN  /\ heap' = updated.heap
           /\ threads' =
                  [threads EXCEPT
                      ![t].pc = "done",
                      ![t].updated_history = updated.ref,
                      ![t].value =
                          [answer |-> th.answer,
                           data_retrieved |-> th.context_data,
                           follow_up_suggestions |-> Take(th.follow_ups, FOLLOW_UP_CAP),
                           conversation_history |-> updated.ref]]
    /\ UNCHANGED <<phase, fn, args, result, raised, faq_history, log, calls, db>>

\* the caller has taken both results
ConcEnd ==
    /\ threads # <<>>
    /\ \A t \in 1..Len(threads) : threads[t].pc = "done"
    /\ threads' = <<>>
    /\ heap' = <<>>
    /\ UNCHANGED <<phase, fn, args, result, raised, faq_history, log, calls, db>>

ConcNext ==
    \/ ConcBegin
    \/ \E t \in 1..2 :
           \/ T_Ground(t)
           \/ T_Prompt(t)
           \/ T_Extend(t)
           \/ T_Answer(t)
           \/ T_FollowUp(t)
           \/ T_Append(t)
           \/ T_Truncate(t)
    \/ ConcEnd

SpecConc == Init /\ [][ConcNext]_vars

(***************************************************************************)
(* The accessors of db_client, statement by statement: conn =              *)
(* get_connection(), the statements of the try block, then the finally     *)
(* block.  db.open counts the connections that are open.                   *)
(***************************************************************************)
MSG_QUERY == "relation providers does not exist"

\* db_client.get_provider_by_npi: WHERE npi = %s, fetchone()
get_provider_by_npi(tbl, npi) ==
    LET at == {i \in 1..Len(tbl) : tbl[i].npi = npi}
    IN  IF at = {} THEN None ELSE tbl[Min(at)]

\* GROUP BY column with COUNT(*): one row for each value of the column
GroupCounts(tbl, column) ==
    {[key |-> v, provider_count |-> Cardinality({i \in 1..Len(tbl) : tbl[i][column] = v})] :
        v \in {tbl[i][column] : i \in 1..Len(tbl)}}

\* ORDER BY provider_count DESC: every order of the groups with the counts
\* descending (the order of equal counts is not fixed by the query)
Distributions(tbl, column) ==
    LET groups == GroupCounts(tbl, column)
        n == Cardinality(groups)
    IN  {s \in [1..n -> groups] :
            /\ \A i, j \in 1..n : i # j => s[i] # s[j]
            /\ \A i, j \in 1..n :
                   i < j => s[i].provider_count >= s[j].provider_count}

get_specialty_distribution(tbl) == Distributions(tbl, "specialty")

get_state_distribution(tbl) == Distributions(tbl, "state")

\* the calls of the accessors that are tried
DbRequests ==
    {[accessor |-> "get_provider_by_npi", arg |-> npi, limit |-> 0] :
        npi \in {"A", "B", "Z"}}
    \cup {[accessor |-> "get_providers_by_specialty", arg |-> a, limit |-> l] :
            a \in {"Cardiology", "Podiatry"}, l \in {1, 50}}
    \cup {[accessor |-> "get_providers_by_state", arg |-> a, limit |-> l] :
            a \in {"TX", "NY"}, l \in {1, 100}}
    \cup {[accessor |-> a, arg |-> None, limit |-> 0] :
            a \in {"get_specialty_distribution", "get_state_distribution",
                   "get_all_specialties", "test_connection"}}

\* the number of cursor.execute statements in the try block of an accessor
Statements(accessor) == IF accessor = "test_connection" THEN 3 ELSE 1

\* the values the return statement of an accessor may give
ReturnValues(request, tbl) ==
    CASE request.accessor = "get_provider_by_npi" ->
             {get_provider_by_npi(tbl, request.arg)}
      [] request.accessor = "get_providers_by_specialty" ->
             {get_providers_by_specialty(tbl, request.arg, request.limit)}
      [] request.accessor = "get_providers_by_state" ->
             {get_providers_by_state(tbl, request.arg, request.limit)}
      [] request.accessor = "get_specialty_distribution" ->
             get_specialty_distribution(tbl)
      [] request.accessor = "get_state_distribution" ->
             get_state_distribution(tbl)
      [] request.accessor = "get_all_specialties" ->
             {get_all_specialties(tbl)}
      [] request.accessor = "test_connection" ->
             {test_connection(tbl)}

\* conn = get_connection(): psycopg2.connect returns a connection or raises
DbCall ==
    /\ phase = "idle"
    /\ db.pc = "idle"
    /\ \E request \in DbRequests, tbl \in Tables, connected \in BOOLEAN :
          db' = IF connected
                THEN [pc |-> "try", open |-> db.open + 1, request |-> request,
                      tbl |-> tbl, step |-> 1, outcome |-> NoResult]
                ELSE [pc |-> "returned", open |-> db.open, request |-> request,
                      tbl |-> tbl, step |-> 0,
                      outcome |-> [raised |-> TRUE, exception |-> MSG_DB]]
    /\ UNCHANGED <<phase, fn, args, result, raised, heap, faq_history, log, calls,
                    threads>>

\* an accessor without the finally block: the connection is closed after
\* the query returned only
DbExecute_ClosesOnSuccessOnly ==
    /\ db.pc = "try"
    /\ \E ok \in BOOLEAN :
          IF ~ok
          THEN db' = [db EXCEPT !.pc = "returned",
                                !.outcome = [raised |-> TRUE, exception |-> MSG_QUERY]]
          ELSE IF db.step < Statements(db.request.accessor)
          THEN db' = [db EXCEPT !.step = @ + 1]
          ELSE \E v \in ReturnValues(db.request, db.tbl) :
                   db' = [db EXCEPT !.pc = "finally",
                                    !.outcome = [raised |-> FALSE, value |-> v]]
    /\ UNCHANGED <<phase, fn, args, result, raised, heap, faq_history, log, calls,
                    threads>>

\* one cursor.execute of the try block: it raises, or it is followed by the
\* next statement, the last one by the return
DbExecute ==
    /\ db.pc = "try"
    /\ \E ok \in BOOLEAN :
          IF ~ok
          THEN db' = [db EXCEPT !.pc = "finally",
                                !.outcome = [raised |-> TRUE, exception |-> MSG_QUERY]]
          ELSE IF db.step < Statements(db.request.accessor)
          THEN db' = [db EXCEPT !.step = @ + 1]
          ELSE \E v \in ReturnValues(db.request, db.tbl) :
                   db' = [db EXCEPT !.pc = "finally",
                                    !.outcome = [raised |-> FALSE, value |-> v]]
    /\ UNCHANGED <<phase, fn, args, result, raised, heap, faq_history, log, calls,
                    threads>>

\* finally: conn.close(), then the return or the exception goes on
DbFinally ==
    /\ db.pc = "finally"
    /\ db' = [db EXCEPT !.pc = "returned", !.open = @ - 1]
    /\ UNCHANGED <<phase, fn, args, result, raised, heap, faq_history, log, calls,
                    threads>>

\* the caller has taken the outcome
DbReturn ==
    /\ db.pc = "returned"
    /\ db' = [pc |-> "idle", open |-> db.open]
    /\ UNCHANGED <<phase, fn, args, result, raised, heap, faq_history, log, calls,
                    threads>>

DbNext == DbCall \/ DbExecute \/ DbFinally \/ DbReturn

SpecDb == Init /\ [][DbNext]_vars

TriageNext == CallTriage \/ Return

SpecTriage == Init /\ [][TriageNext]_vars

SearchNext == CallSearch \/ Return

SpecSearch == Init /\ [][SearchNext]_vars

FaqNext == CallFaq \/ Return

SpecFaq == Init /\ [][FaqNext]_vars

SpecChat == Init /\ [][ChatTurn]_vars

RelatedNext == CallRelated \/ Return

SpecRelated == Init /\ [][RelatedNext]_vars

\* the two entry points that parse a tagged reply
ParseNext == CallTriage \/ CallSearch \/ Return

SpecParse == Init /\ [][ParseNext]_vars

Next ==
    \/ CallDescribe
    \/ CallRelated
    \/ CallAnalyze
    \/ CallTriage
    \/ CallSearch
    \/ CallFaq
    \/ Return

Spec == Init /\ [][Next]_vars


(***************************************************************************)
(* Properties of recommend_provider_by_symptoms.                           *)
(***************************************************************************)
TriageDone == phase = "done" /\ fn = "recommend_provider_by_symptoms" /\ ~raised

\* the call got a reply text from the completion request
TriageReplied == TriageDone /\ args.completion.kind = "ok"

\* the fields the parsing loop reads from the reply of the call
TriageReply ==
    TriageParse(Split(Strip(args.completion.content), "\n"), TriageDefaults)

UrgencyLevels == {"low", "medium", "high", "emergency"}

\* C3: whatever the completion request does (any reply text, or a failure),
\* the urgency_level of the result is one of low, medium, high, emergency.
C3_UrgencyInRange ==
    TriageDone => result.urgency_level \in UrgencyLevels

\* C4: emergency_action is null whenever the EMERGENCY_ACTION value of the
\* reply, trimmed, equals N/A ignoring letter case.
C4_NotApplicableIsNull ==
    (TriageReplied /\ Lower(TriageReply.emergency_action) = "n/a")
        => result.emergency_action = None

\* C5: emergency_action is non-null only when urgency_level is high or
\* emergency; with urgency low or medium it is null or absent.
C5_ActionOnlyWhenDanger ==
    (TriageDone /\ "emergency_action" \in DOMAIN result
        /\ result.emergency_action # None)
        => result.urgency_level \in {"high", "emergency"}

(***************************************************************************)
(* Properties of semantic_search_providers.                                *)
(***************************************************************************)
SearchDone == phase = "done" /\ fn = "semantic_search_providers" /\ ~raised

SearchOk == SearchDone /\ "error" \notin DOMAIN result

\* the per-specialty result lists of the call, in recommended-specialty order
SearchLists ==
    [k \in 1..Len(result.recommended_specialties) |->
        SearchLookup(args.tbl, result.recommended_specialties[k], k, args.dbRaises)]

RECURSIVE Concat(_)
Concat(lists) ==
    IF Len(lists) = 0 THEN <<>> ELSE Head(lists) \o Concat(Tail(lists))

Npis(rows) == [i \in 1..Len(rows) |-> rows[i].npi]

\* the positions of a sequence of rows that hold an identifier for the first time
FirstSeen(rows) ==
    {i \in 1..Len(rows) : \A j \in 1..(i - 1) : rows[j].npi # rows[i].npi}

\* the position at which identifier npi occurs first
FirstAt(rows, npi) == Min({i \in 1..Len(rows) : rows[i].npi = npi})

\* the k-th smallest element of a set of numbers
Kth(S, k) == CHOOSE x \in S : Cardinality({y \in S : y <= x}) = k

\* C9: the returned providers hold no identifier twice and stand in the order
\* of their first occurrence across the per-specialty lists taken in
\* recommended-specialty order; lists [[A,B],[B,C]] merge to [A,B,C].
C9_MergeFirstSeenOrder ==
    SearchOk =>
        LET P == result.providers
            all == Concat(SearchLists)
        IN  /\ \A i, j \in 1..Len(P) : i < j => P[i].npi # P[j].npi
            /\ \A i \in 1..Len(P) :
                   /\ \E k \in 1..Len(all) : all[k].npi = P[i].npi
                   /\ P[i] = all[FirstAt(all, P[i].npi)]
            /\ \A i, j \in 1..Len(P) :
                   i < j => FirstAt(all, P[i].npi) < FirstAt(all, P[j].npi)
            /\ ([k \in 1..Len(SearchLists) |-> Npis(SearchLists[k])]
                    = <<<<"A", "B">>, <<"B", "C">>>> /\ args.limit >= 3)
                   => Npis(P) = <<"A", "B", "C">>

C9_Witness ==
    /\ SearchOk
    /\ [k \in 1..Len(SearchLists) |-> Npis(SearchLists[k])]
           = <<<<"A", "B">>, <<"B", "C">>>>
    /\ Npis(result.providers) = <<"A", "B", "C">>

\* C10: for a limit >= 0 the providers are exactly the first
\* min(limit, total_found) records of the deduplicated sequence, and
\* total_found is the number of distinct identifiers among all the records
\* the per-specialty lookups returned, whatever the limit.
C10_TruncationAndTotal ==
    (SearchOk /\ args.limit >= 0) =>
        LET all == Concat(SearchLists)
            first == FirstSeen(all)
            n == IF args.limit < result.total_found
                 THEN args.limit ELSE result.total_found
        IN  /\ result.total_found = Cardinality({all[k].npi : k \in 1..Len(all)})
            /\ result.providers = [i \in 1..n |-> all[Kth(first, i)]]

C10_Witness ==
    /\ SearchOk
    /\ args.limit >= 1
    /\ args.limit < result.total_found
    /\ Len(Concat(SearchLists)) > result.total_found
    /\ Len(result.providers) = args.limit

\* the merge of the call applied to a list of rows: deduplicate keeping the
\* first occurrence, then unique_providers[:limit]
MergeAgain(rows) == Take(SearchUnique(rows, {}, <<>>), args.limit)

SearchReply ==
    SearchParse(Split(Strip(args.completion.content), "\n"), SearchDefaults).specialties

\* the call got a reply and the lookup of at least one of its specialties raised
SearchLookupFailed ==
    /\ phase = "done"
    /\ fn = "semantic_search_providers"
    /\ args.completion.kind = "ok"
    /\ \E k \in 1..Len(SearchReply) : k \in args.dbRaises

\* what the repository holds for the k-th specialty of the reply, nothing
\* when that lookup raised
Surviving(k) ==
    IF k \in args.dbRaises THEN <<>>
    ELSE get_providers_by_specialty(args.tbl, SearchReply[k], SEARCH_SPECIALTY_LIMIT)

\* C15: when the repository lookup for one recommended specialty of
\* semantic_search_providers fails, the request is not aborted: the failing
\* specialty contributes no providers, the lookups of the remaining
\* specialties still run, and their providers are merged in specialty order
\* into a result that has no error field.
C15_FailedLookupIsSkipped ==
    SearchLookupFailed =>
        LET all == Concat([k \in 1..Len(SearchReply) |-> Surviving(k)])
            first == FirstSeen(all)
            merged == [i \in 1..Cardinality(first) |-> all[Kth(first, i)]]
        IN  /\ ~raised
            /\ "error" \notin DOMAIN result
            /\ result.recommended_specialties = SearchReply
            /\ result.total_found = Len(merged)
            /\ result.providers = Take(merged, args.limit)

C15_Witness ==
    /\ SearchLookupFailed
    /\ args.dbRaises = {1}
    /\ SearchReply = <<"Cardiology", "Neurology">>
    /\ Len(Surviving(2)) = 2
    /\ Len(get_providers_by_specialty(args.tbl, "Cardiology", SEARCH_SPECIALTY_LIMIT)) > 0
    /\ result.providers = Surviving(2)

(***************************************************************************)
(* Properties of faq_chatbot.                                             *)
(***************************************************************************)
FaqDone == phase = "done" /\ fn = "faq_chatbot"

\* the turn succeeded: both completion requests were answered
FaqOk == FaqDone /\ ~raised /\ "error" \notin DOMAIN result

\* the caller's list as it was when the call began
FaqSupplied ==
    IF args.conversation_history = NoRef THEN <<>>
    ELSE args.heap[args.conversation_history]

\* C6: for every caller-supplied history, after a successful turn the returned
\* conversation_history has at most 10 entries and its last two entries are
\* the new user turn holding the question, then the new assistant turn
\* holding the answer.
C6_WindowEndsWithNewPair ==
    FaqOk =>
        LET H == heap[result.conversation_history]
        IN  /\ Len(H) <= 10
            /\ Len(H) >= 2
            /\ H[Len(H) - 1] = [role |-> "user", content |-> args.question]
            /\ H[Len(H)] = [role |-> "assistant", content |-> result.answer]
            /\ result.answer = Strip(args.completion.content)

C6_Witness ==
    /\ FaqOk
    /\ Len(FaqSupplied) > 10
    /\ Len(heap[result.conversation_history]) = 10

\* C8: faq_chatbot never modifies the list passed as conversation_history, on
\* the success path and on the failure path, and on success the returned
\* history is a new list, not the caller's.
C8_CallerHistoryUntouched ==
    (FaqDone /\ args.conversation_history # NoRef) =>
        /\ heap[args.conversation_history] = FaqSupplied
        /\ FaqOk => result.conversation_history # args.conversation_history

C8_Witness ==
    /\ FaqOk
    /\ args.conversation_history # NoRef
    /\ Len(FaqSupplied) > 0
    /\ heap[result.conversation_history]
           = FaqSupplied \o <<[role |-> "user", content |-> args.question],
                              [role |-> "assistant", content |-> result.answer]>>

\* the caller's history followed by the new pair of turns
FaqAdvanced ==
    FaqSupplied \o <<[role |-> "user", content |-> args.question],
                     [role |-> "assistant", content |-> result.answer]>>

\* the number of oldest entries the truncation left out
FaqDropped == Len(FaqAdvanced) - Len(heap[result.conversation_history])

\* C22 as stated: for every caller-supplied history, including one of odd
\* length or of more than 10 entries, the truncation removes only complete
\* oldest (user, assistant) pairs: an even number of oldest entries is
\* dropped, so the returned history consists of whole pairs and begins with a
\* user turn whenever the supplied history did.
C22_DropsWholePairs ==
    FaqOk =>
        LET H == heap[result.conversation_history]
        IN  /\ H = SubSeq(FaqAdvanced, FaqDropped + 1, Len(FaqAdvanced))
            /\ FaqDropped % 2 = 0
            /\ Len(H) % 2 = 0
            /\ (FaqSupplied # <<>> /\ FaqSupplied[1].role = "user")
                   => H[1].role = "user"

\* C22 as amended: the returned history is the last 10 entries of the
\* supplied history followed by the new pair, so the number of oldest
\* entries dropped is the supplied length less 8, or zero; for a supplied
\* history of even length that number is even, the returned history has an
\* even number of entries and begins with a user turn whenever the supplied
\* history did; for one of odd length and more than 8 entries an odd number
\* of entries is dropped.
C22_DropsOldestEntries ==
    FaqOk =>
        LET H == heap[result.conversation_history]
            n == Len(FaqSupplied)
        IN  /\ H = SubSeq(FaqAdvanced, FaqDropped + 1, Len(FaqAdvanced))
            /\ FaqDropped = IF n > HISTORY_CAP - 2 THEN n - (HISTORY_CAP - 2) ELSE 0
            /\ n % 2 = 0 =>
                   /\ FaqDropped % 2 = 0
                   /\ Len(H) % 2 = 0
                   /\ (n = 0 \/ FaqSupplied[1].role = "user") => H[1].role = "user"
            /\ (n % 2 = 1 /\ n > HISTORY_CAP - 2) => FaqDropped % 2 = 1

C22_Witness ==
    /\ FaqOk
    /\ Len(FaqSupplied) = 10
    /\ FaqDropped = 2
    /\ heap[result.conversation_history][1] = FaqSupplied[3]

\* names[i] is the first of the names that occurs in the lower-cased question
FirstMentioned(names, i, question_lower) ==
    /\ Contains(question_lower, Lower(names[i]))
    /\ \A j \in 1..(i - 1) : ~Contains(question_lower, Lower(names[j]))

\* the number of requests of the call made to the accessor
Requests(accessor) == Cardinality({k \in 1..Len(calls) : calls[k] = accessor})

\* C27: the grounding step of faq_chatbot records at most one specialty and
\* at most one region per question: the specialty is the first name, in the
\* order returned by get_all_specialties, that occurs as a case-insensitive
\* substring of the question, and the region is the first code of the list
\* CA, TX, NY, FL, IL, PA, OH, GA, NC, MI that occurs as a case-insensitive
\* substring of the question; later matches in either list are never fetched.
C27_GroundingFirstMatch ==
    (FaqDone /\ ~raised) =>
        LET found == result.data_retrieved
            question_lower == Lower(args.question)
            names == get_all_specialties(args.tbl)
        IN  /\ Requests("get_providers_by_specialty") <= 1
            /\ Requests("get_providers_by_state") <= 1
            /\ "specialty_providers" \in DOMAIN found =>
                   /\ Requests("get_providers_by_specialty") = 1
                   /\ \E i \in 1..Len(names) :
                          /\ found.specialty_providers.specialty = names[i]
                          /\ FirstMentioned(names, i, question_lower)
            /\ "state_data" \in DOMAIN found =>
                   /\ Requests("get_providers_by_state") = 1
                   /\ \E i \in 1..Len(FAQ_STATES) :
                          /\ found.state_data.state = FAQ_STATES[i]
                          /\ FirstMentioned(FAQ_STATES, i, question_lower)
            /\ "error" \notin DOMAIN found =>
                   /\ (\E i \in 1..Len(names) : Contains(question_lower, Lower(names[i])))
                          => "specialty_providers" \in DOMAIN found
                   /\ (\E i \in 1..Len(FAQ_STATES) :
                           Contains(question_lower, Lower(FAQ_STATES[i])))
                          => "state_data" \in DOMAIN found

C27_Witness ==
    /\ FaqDone
    /\ ~raised
    /\ args.question = "Any neurology or Cardiology doctors in TX?"
    /\ "specialty_providers" \in DOMAIN result.data_retrieved
    /\ "state_data" \in DOMAIN result.data_retrieved
    /\ result.data_retrieved.specialty_providers.specialty = "Cardiology"
    /\ result.data_retrieved.state_data.state = "CA"

\* the stripped lines of the reply of the follow-up request
FollowUpReply == StripEach(Split(Strip(args.follow_up.content), "\n"))

\* the lines of that reply that start with a bullet
Bulleted ==
    {i \in 1..Len(FollowUpReply) :
        StartsWith(FollowUpReply[i], "-") \/ StartsWith(FollowUpReply[i], BULLET)}

\* a bulleted line without its leading bullet characters and blanks, trimmed
Unbulleted(line) ==
    LET text == {i \in 1..Len(line) : ~Contains("-" \o BULLET \o " ", CharAt(line, i))}
    IN  IF text = {} THEN "" ELSE Strip(SubSeq(line, Min(text), Len(line)))

\* C17: for every reply of the follow-up request, follow_up_suggestions has
\* at most 3 entries: the first three bulleted lines of the reply, in reply
\* order, each with its bullet stripped.
C17_FollowUpsAreFirstThreeBullets ==
    /\ (FaqDone /\ ~raised) => Len(result.follow_up_suggestions) <= 3
    /\ FaqOk =>
           LET n == IF Cardinality(Bulleted) < 3 THEN Cardinality(Bulleted) ELSE 3
           IN  result.follow_up_suggestions
                   = [j \in 1..n |-> Unbulleted(FollowUpReply[Kth(Bulleted, j)])]

C17_Witness ==
    /\ FaqOk
    /\ Cardinality(Bulleted) = 4
    /\ Len(FollowUpReply) = 7
    /\ result.follow_up_suggestions = <<"One?", "Two?", "Three?">>

\* what invocation t returns when it runs alone on the caller's history
Alone(t) ==
    faq_chatbot(threads[t].question, threads[t].conversation_history,
                <<threads[t].supplied>>, threads[t].tbl, {},
                threads[t].completion, threads[t].follow_up)

\* invocation t has returned what it returns alone; a history is compared by
\* the turns it holds
SameAsAlone(t) ==
    LET th == threads[t]
        alone == Alone(t)
    IN  /\ th.raised = alone.raised
        /\ DOMAIN th.value = DOMAIN alone.value
        /\ \A k \in DOMAIN th.value \ {"conversation_history"} :
               th.value[k] = alone.value[k]
        /\ ~th.raised =>
               heap[th.value.conversation_history]
                   = alone.heap[alone.value.conversation_history]

\* C19: two invocations that run interleaved, for example two faq_chatbot
\* turns started from the same caller history, each return exactly the result
\* they return when run alone, and the shared input history is left unchanged
\* by both.
C19_InterleavedAsAlone ==
    /\ \A t \in 1..Len(threads) : threads[t].pc = "done" => SameAsAlone(t)
    /\ threads # <<>> => heap[1] = threads[1].supplied

C19_Witness ==
    /\ Len(threads) = 2
    /\ \A t \in 1..2 :
           /\ threads[t].pc = "done"
           /\ threads[t].conversation_history = 1
           /\ ~threads[t].raised
           /\ "error" \notin DOMAIN threads[t].value
    /\ Len(threads[1].supplied) = 9
    /\ threads[1].question # threads[2].question
    /\ threads[1].value.conversation_history # threads[2].value.conversation_history
    /\ threads[1].messages < threads[2].messages
    /\ threads[2].messages < threads[1].updated_history
    /\ threads[1].updated_history < threads[2].updated_history

\* the history interactive_demo holds
ChatHistory == IF faq_history = NoRef THEN <<>> ELSE heap[faq_history]

\* the turns of a sequence of exchanges, in order
RECURSIVE ExchangeTurns(_)
ExchangeTurns(exchanges) ==
    IF Len(exchanges) = 0 THEN <<>>
    ELSE <<[role |-> "user", content |-> Head(exchanges).question],
           [role |-> "assistant", content |-> Head(exchanges).answer]>>
             \o ExchangeTurns(Tail(exchanges))

\* C7: starting from an empty history and passing each returned history into
\* the next call, after n successful turns the history has min(2n, 10)
\* entries, alternates user and assistant turns starting with a user turn,
\* and holds the most recent min(n, 5) exchanges in chronological order;
\* after two turns it is [user1, assistant1, user2, assistant2].
C7_ChainedHistory ==
    LET n == Len(log)
        H == ChatHistory
    IN  /\ Len(H) = (IF 2 * n < 10 THEN 2 * n ELSE 10)
        /\ \A i \in 1..Len(H) :
               H[i].role = (IF i % 2 = 1 THEN "user" ELSE "assistant")
        /\ H = ExchangeTurns(LastN(log, IF n < 5 THEN n ELSE 5))
        /\ n = 2 =>
               H = <<[role |-> "user", content |-> log[1].question],
                     [role |-> "assistant", content |-> log[1].answer],
                     [role |-> "user", content |-> log[2].question],
                     [role |-> "assistant", content |-> log[2].answer]>>

C7_Witness ==
    /\ Len(log) = 6
    /\ Len(ChatHistory) = 10
    /\ ChatHistory[1].content = log[2].question

(***************************************************************************)
(* Properties of all the entry points.                                     *)
(***************************************************************************)
\* C1: whatever the completion request and the repository do, each of the six
\* entry points returns a value: no exception escapes to its caller.
C1_NoExceptionEscapes ==
    phase = "done" => ~raised

TriageFields ==
    {"recommended_specialties", "reasoning", "urgency_level", "emergency_action",
     "disclaimer", "available_providers"}

SearchFields ==
    {"understood_intent", "search_terms", "recommended_specialties", "providers",
     "total_found"}

FaqFields ==
    {"answer", "data_retrieved", "follow_up_suggestions", "conversation_history"}

\* the stripped lines of the reply text of the call
ReplyLines == StripEach(Split(Strip(args.completion.content), "\n"))

\* no line of the reply carries the tag
TagAbsent(tag) == \A i \in 1..Len(ReplyLines) : ~StartsWith(ReplyLines[i], tag)

\* C12: for any reply text, the empty string and text without any recognized
\* tag included, the tag parsing of recommend_provider_by_symptoms and of
\* semantic_search_providers does not raise and yields every field; a field
\* whose tag is absent has its default: specialties [], reasoning empty,
\* urgency medium, emergency action null, intent empty, key terms [].
C12_ParsingTotalWithDefaults ==
    /\ (phase = "done" /\ fn = "recommend_provider_by_symptoms"
           /\ args.completion.kind = "ok") =>
           /\ ~raised
           /\ "error" \notin DOMAIN result
           /\ TriageFields \subseteq DOMAIN result
           /\ TagAbsent("SPECIALTIES:") => result.recommended_specialties = <<>>
           /\ TagAbsent("REASONING:") => result.reasoning = ""
           /\ TagAbsent("URGENCY:") => result.urgency_level = "medium"
           /\ TagAbsent("EMERGENCY_ACTION:") => result.emergency_action = None
    /\ (phase = "done" /\ fn = "semantic_search_providers"
           /\ args.completion.kind = "ok") =>
           /\ ~raised
           /\ "error" \notin DOMAIN result
           /\ SearchFields \subseteq DOMAIN result
           /\ TagAbsent("INTENT:") => result.understood_intent = ""
           /\ TagAbsent("KEY_TERMS:") => result.search_terms = <<>>
           /\ TagAbsent("SPECIALTIES:") => result.recommended_specialties = <<>>

C12_Witness ==
    /\ TriageReplied
    /\ args.completion.content = "Here is my assessment\n "
    /\ result.recommended_specialties = <<>>
    /\ result.reasoning = ""
    /\ result.urgency_level = "medium"
    /\ result.emergency_action = None

\* the last line of the reply that starts with the tag
LastTagged(tag) ==
    ReplyLines[CHOOSE i \in 1..Len(ReplyLines) :
                   /\ StartsWith(ReplyLines[i], tag)
                   /\ \A j \in (i + 1)..Len(ReplyLines) :
                          ~StartsWith(ReplyLines[j], tag)]

\* the remainder of a line after its leading tag, trimmed
Remainder(line, tag) == Strip(SubSeq(line, Len(tag) + 1, Len(line)))

\* the remainder of the last line of the reply that starts with the tag
LastValue(tag) == Remainder(LastTagged(tag), tag)

\* the elements of a comma-separated value, trimmed, the empty ones dropped
Elements(value) ==
    SelectSeq(StripEach(Split(value, ",")), LAMBDA x : x # "")

\* C13 as stated: whenever the completion request of
\* recommend_provider_by_symptoms succeeds, whatever text it returns,
\* recommended_specialties is a non-empty sequence; it is empty only when the
\* completion request failed.
C13_NonEmptyUnlessFailed ==
    TriageDone =>
        (Len(result.recommended_specialties) = 0
            => CompletionFails(args.completion))

\* C13 as amended: recommended_specialties is empty when the completion
\* request failed or no line of the reply starts with SPECIALTIES:, and it is
\* non-empty whenever the completion request succeeds and the last
\* SPECIALTIES: line of the reply names a specialty (has an element that is not
\* empty after trimming).
C13_NonEmptyWhenNamed ==
    TriageDone =>
        /\ (CompletionFails(args.completion) \/ TagAbsent("SPECIALTIES:"))
               => Len(result.recommended_specialties) = 0
        /\ (~CompletionFails(args.completion) /\ ~TagAbsent("SPECIALTIES:")
               /\ Elements(LastValue("SPECIALTIES:")) # <<>>)
               => Len(result.recommended_specialties) > 0

C13_Witness ==
    /\ TriageReplied
    /\ ReplyLines = <<"URGENCY: low">>
    /\ result.recommended_specialties = <<>>

\* a location filter was supplied: if location_state
LocationSupplied == args.location_state # None /\ args.location_state # ""

\* the call made the repository lookup and the lookup raised
TriageLookupFailed ==
    /\ phase = "done"
    /\ fn = "recommend_provider_by_symptoms"
    /\ args.completion.kind = "ok"
    /\ LocationSupplied
    /\ Len(TriageReply.specialties) > 0
    /\ 1 \in args.dbRaises

\* C14: when a location is supplied and the repository lookup of
\* recommend_provider_by_symptoms fails, the request is not aborted: the
\* result keeps the parsed recommended_specialties, reasoning, urgency_level,
\* emergency_action and disclaimer, has available_providers == [], carries
\* the failure message in provider_search_error and has no error field.
C14_LookupFailureIsNotFatal ==
    TriageLookupFailed =>
        /\ ~raised
        /\ "error" \notin DOMAIN result
        /\ TriageFields \cup {"provider_search_error"} \subseteq DOMAIN result
        /\ result.recommended_specialties = TriageReply.specialties
        /\ result.reasoning = TriageReply.reasoning
        /\ result.urgency_level = TriageReply.urgency
        /\ result.emergency_action =
               (IF TriageReply.emergency_action = "N/A" THEN None
                ELSE TriageReply.emergency_action)
        /\ result.disclaimer = DISCLAIMER
        /\ result.available_providers = <<>>
        /\ result.provider_search_error = MSG_DB

C14_Witness ==
    /\ TriageLookupFailed
    /\ args.location_state = "TX"
    /\ Len(args.tbl) > 0
    /\ result.recommended_specialties = <<"cardiology", "Neurology">>
    /\ result.urgency_level = "high"
    /\ result.provider_search_error = MSG_DB

\* the repository requests among the requests of the call
RepositoryCalls == SelectSeq(calls, LAMBDA c : c # CREATE)

\* C16: when recommend_provider_by_symptoms is called without a location
\* filter (location_state None or empty), available_providers is the empty
\* list and no repository query is made, whatever the reply of the
\* completion request is.
C16_NoLocationNoLookup ==
    (phase = "done" /\ fn = "recommend_provider_by_symptoms"
        /\ args.completion.kind = "ok" /\ ~LocationSupplied) =>
        /\ ~raised
        /\ "available_providers" \in DOMAIN result
        /\ result.available_providers = <<>>
        /\ "location_checked" \notin DOMAIN result
        /\ RepositoryCalls = <<>>

C16_Witness ==
    /\ TriageReplied
    /\ args.location_state = None
    /\ result.recommended_specialties = <<"cardiology", "Neurology">>
    /\ Len(get_providers_by_state(args.tbl, "TX", TRIAGE_STATE_LIMIT)) > 0
    /\ result.available_providers = <<>>
    /\ calls = <<CREATE>>

\* the call of suggest_related_specialties got a reply text
RelatedReplied ==
    /\ phase = "done"
    /\ fn = "suggest_related_specialties"
    /\ args.completion.kind = "ok"

\* the lines of the reply that begin with a digit or a dash and hold a colon
Listed ==
    {i \in 1..Len(ReplyLines) :
        /\ Len(ReplyLines[i]) > 0
        /\ Contains("0123456789-", CharAt(ReplyLines[i], 1))
        /\ Contains(ReplyLines[i], ":")}

\* the pair of a listed line: the text before and the text after the first
\* colon of what follows the leading numbering or bullet, both trimmed
PairOf(line) ==
    LET start == Min({i \in 1..Len(line) :
                         ~Contains("0123456789.-) ", CharAt(line, i))})
        item == SubSeq(line, start, Len(line))
        colon == Min({i \in 1..Len(item) : CharAt(item, i) = ":"})
    IN  [specialty |-> Strip(SubSeq(item, 1, colon - 1)),
         reason |-> Strip(SubSeq(item, colon + 1, Len(item)))]

C20_ConnectionsClosed ==
    /\ db.pc \in {"idle", "returned"} => db.open = 0
    /\ db.open <= 1

C20_Witness ==
    /\ db.pc = "returned"
    /\ db.request.accessor = "test_connection"
    /\ db.step = 2
    /\ db.outcome.raised
    /\ db.outcome.exception = MSG_QUERY
    /\ db.open = 0

(***************************************************************************)
(* Further properties of the tag parsing.                                  *)
(***************************************************************************)
\* C21: in recommend_provider_by_symptoms with a successful completion, when
\* the reply has no URGENCY line, or its URGENCY value after trimming and
\* lowercasing is not one of low, medium, high, emergency, the returned
\* urgency_level is medium.
C21_UnknownUrgencyIsMedium ==
    (TriageReplied
        /\ (TagAbsent("URGENCY:") \/ TriageReply.urgency \notin UrgencyLevels))
        => result.urgency_level = "medium"

TriageTags == {"SPECIALTIES:", "REASONING:", "URGENCY:", "EMERGENCY_ACTION:"}

SearchTags == {"INTENT:", "KEY_TERMS:", "SPECIALTIES:"}

\* the lines of the reply that start with one of the tags
TaggedLines(tags) ==
    SelectSeq(ReplyLines, LAMBDA line : \E tag \in tags : StartsWith(line, tag))

\* the fields a reply made of the given lines yields
TriageOf(lines) == TriageResult(TriageParse(lines, TriageDefaults))

SearchOf(lines) == SearchParse(lines, SearchDefaults)

\* the semantic search got a reply text from the completion request
SearchReplied ==
    phase = "done" /\ fn = "semantic_search_providers" /\ ~raised
        /\ args.completion.kind = "ok"

\* C23: when a tag occurs on several lines of one reply, the field holds the
\* value of the last such line only; earlier values are overwritten, not
\* merged, and lines that start with no tag change no field.
C23_LastTagLineWins ==
    /\ TriageReplied =>
           /\ ~TagAbsent("SPECIALTIES:") =>
                  result.recommended_specialties
                      = TriageOf(<<LastTagged("SPECIALTIES:")>>).recommended_specialties
           /\ ~TagAbsent("REASONING:") =>
                  result.reasoning = TriageOf(<<LastTagged("REASONING:")>>).reasoning
           /\ ~TagAbsent("URGENCY:") =>
                  result.urgency_level
                      = TriageOf(<<LastTagged("URGENCY:")>>).urgency_level
           /\ ~TagAbsent("EMERGENCY_ACTION:") =>
                  result.emergency_action
                      = TriageOf(<<LastTagged("EMERGENCY_ACTION:")>>).emergency_action
           /\ LET tagged == TriageOf(TaggedLines(TriageTags))
              IN  /\ result.recommended_specialties = tagged.recommended_specialties
                  /\ result.reasoning = tagged.reasoning
                  /\ result.urgency_level = tagged.urgency_level
                  /\ result.emergency_action = tagged.emergency_action
    /\ SearchReplied =>
           /\ ~TagAbsent("INTENT:") =>
                  result.understood_intent = SearchOf(<<LastTagged("INTENT:")>>).intent
           /\ ~TagAbsent("KEY_TERMS:") =>
                  result.search_terms = SearchOf(<<LastTagged("KEY_TERMS:")>>).key_terms
           /\ ~TagAbsent("SPECIALTIES:") =>
                  result.recommended_specialties
                      = SearchOf(<<LastTagged("SPECIALTIES:")>>).specialties
           /\ LET tagged == SearchOf(TaggedLines(SearchTags))
              IN  /\ result.understood_intent = tagged.intent
                  /\ result.search_terms = tagged.key_terms
                  /\ result.recommended_specialties = tagged.specialties

C23_Witness ==
    /\ TriageReplied
    /\ ReplyLines = <<"SPECIALTIES: cardiology, Neurology", "SPECIALTIES:">>
    /\ result.recommended_specialties = <<"">>

\* C24: for every line that starts with a tag, the value stored for that tag
\* is exactly the remainder of the line after the leading tag and colon,
\* trimmed; text of the remainder is kept as it is, also when the remainder
\* itself contains the tag text again (REASONING: see REASONING: above).
C24_ValueIsRemainder ==
    /\ TriageReplied =>
           /\ ~TagAbsent("SPECIALTIES:") =>
                  result.recommended_specialties
                      = StripEach(Split(LastValue("SPECIALTIES:"), ","))
           /\ ~TagAbsent("REASONING:") =>
                  result.reasoning = LastValue("REASONING:")
           /\ ~TagAbsent("URGENCY:") =>
                  result.urgency_level = Lower(LastValue("URGENCY:"))
           /\ ~TagAbsent("EMERGENCY_ACTION:") =>
                  result.emergency_action
                      = TriageAction(LastValue("EMERGENCY_ACTION:"))
    /\ SearchReplied =>
           /\ ~TagAbsent("INTENT:") =>
                  result.understood_intent = LastValue("INTENT:")
           /\ ~TagAbsent("KEY_TERMS:") =>
                  result.search_terms = StripEach(Split(LastValue("KEY_TERMS:"), ","))
           /\ ~TagAbsent("SPECIALTIES:") =>
                  result.recommended_specialties
                      = StripEach(Split(LastValue("SPECIALTIES:"), ","))

\* C25: the list-valued fields parsed from SPECIALTIES and KEY_TERMS lines
\* are the comma-separated elements of the value, each trimmed, in order,
\* with elements that are empty after trimming dropped; a tag line with an
\* empty value, or a value with adjacent or trailing commas, yields no
\* empty-string element.
C25_EmptyElementsDropped ==
    /\ (TriageReplied /\ ~TagAbsent("SPECIALTIES:")) =>
           result.recommended_specialties = Elements(LastValue("SPECIALTIES:"))
    /\ SearchReplied =>
           /\ ~TagAbsent("KEY_TERMS:") =>
                  result.search_terms = Elements(LastValue("KEY_TERMS:"))
           /\ ~TagAbsent("SPECIALTIES:") =>
                  result.recommended_specialties = Elements(LastValue("SPECIALTIES:"))

(***************************************************************************)
(* Further properties of the provider lookup of the triage.                *)
(***************************************************************************)
\* the rows of a appear in b in the same order
RECURSIVE InOrderOf(_, _)
InOrderOf(a, b) ==
    IF Len(a) = 0 THEN TRUE
    ELSE IF Len(b) = 0 THEN FALSE
    ELSE IF Head(a) = Head(b) THEN InOrderOf(Tail(a), Tail(b))
    ELSE InOrderOf(a, Tail(b))

\* the provider lookup of the triage was made and did not fail
TriageLookupSucceeded ==
    /\ TriageReplied
    /\ LocationSupplied
    /\ Len(result.recommended_specialties) > 0
    /\ "provider_search_error" \notin DOMAIN result

\* C26: in recommend_provider_by_symptoms, when a location is supplied and
\* the repository lookup succeeds, available_providers holds at most 5
\* records, in repository order, each located in the requested state and each
\* with a specialty equal, ignoring letter case, to the first recommended
\* specialty.
C26_SampleOfMatchingProviders ==
    TriageLookupSucceeded =>
        LET found == result.available_providers
        IN  /\ Len(found) <= 5
            /\ InOrderOf(found, args.tbl)
            /\ \A i \in 1..Len(found) :
                   /\ found[i].state = args.location_state
                   /\ Lower(found[i].specialty)
                          = Lower(result.recommended_specialties[1])

C26_Witness ==
    /\ TriageLookupSucceeded
    /\ args.tbl = ManyRows
    /\ Len(result.available_providers) = 5
    /\ result.available_providers[2].specialty = "cardiology"
    /\ result.available_providers[3].specialty = "CARDIOLOGY"

(***************************************************************************)
(* Further properties of faq_chatbot.                                      *)
(***************************************************************************)
\* the entry of data_retrieved that a grounding request fills
FactOf(accessor) ==
    CASE accessor = "test_connection" -> "network_stats"
      [] accessor = "get_all_specialties" -> "available_specialties"
      [] accessor = "get_providers_by_specialty" -> "specialty_providers"
      [] accessor = "get_providers_by_state" -> "state_data"

\* a repository request of the grounding step of the call raised: it was
\* the last one made
GroundingFailed ==
    /\ FaqDone
    /\ Len(RepositoryCalls) \in args.dbRaises

\* C28: in faq_chatbot, a repository failure at any grounding step
\* (statistics, specialty list, specialty lookup, region lookup) does not
\* abort the turn: the facts fetched by the steps before the failing one stay
\* in data_retrieved, the later steps are skipped, data_retrieved carries an
\* error entry, and the answer is still requested from the completion
\* capability and returned with an updated history.
C28_GroundingFailureIsNotFatal ==
    GroundingFailed =>
        /\ ~raised
        /\ DOMAIN result.data_retrieved =
               {FactOf(RepositoryCalls[k]) : k \in 1..(Len(RepositoryCalls) - 1)}
                   \cup {"error"}
        /\ CREATE \in {calls[k] : k \in 1..Len(calls)}
        /\ ~CompletionFails(args.completion) /\ ~CompletionFails(args.follow_up) =>
               /\ result.answer = Strip(args.completion.content)
               /\ LET H == heap[result.conversation_history]
                  IN  Len(H) >= 2 /\ H = LastN(FaqAdvanced, Len(H))

(***************************************************************************)
(* The order of the requests of one invocation.                            *)
(***************************************************************************)
\* the number of completion requests of the call
Creates == Requests(CREATE)

\* the last request of the call was a completion request
EndsWithCreate == calls # <<>> /\ calls[Len(calls)] = CREATE

\* C29: within one invocation no entry point issues more than one completion
\* call (faq_chatbot: at most two, the answer call then the follow-up call), a
\* failed completion call is never retried, and after a completion call has
\* failed no further completion call and no repository call is made in that
\* invocation; in recommend_provider_by_symptoms and
\* semantic_search_providers every repository read happens only after the
\* completion call has returned successfully.
C29_RequestsInOrder ==
    phase = "done" =>
        /\ Creates <= (IF fn = "faq_chatbot" THEN 2 ELSE 1)
        /\ (Creates >= 1 /\ CompletionFails(args.completion)) =>
               Creates = 1 /\ EndsWithCreate
        /\ (fn = "faq_chatbot" /\ Creates = 2) =>
               /\ ~CompletionFails(args.completion)
               /\ calls[Len(calls) - 1] = CREATE
               /\ EndsWithCreate
        /\ fn \in {"recommend_provider_by_symptoms", "semantic_search_providers"} =>
               /\ calls[1] = CREATE
               /\ RepositoryCalls # <<>> => ~CompletionFails(args.completion)

C29_Witness ==
    /\ FaqDone
    /\ ~raised
    /\ ~CompletionFails(args.completion)
    /\ args.follow_up.kind = "raise"
    /\ "error" \in DOMAIN result
    /\ Len(RepositoryCalls) = 4
    /\ calls = RepositoryCalls \o <<CREATE, CREATE>>

\* a completion request of the faq_chatbot call failed
FaqCompletionFailed ==
    /\ FaqDone
    /\ Creates >= 1
    /\ CompletionFails(args.completion) \/ CompletionFails(args.follow_up)

\* str(e) of the completion request of the call that failed
FaqFailure ==
    IF CompletionFails(args.completion) THEN CompletionError(args.completion)
    ELSE CompletionError(args.follow_up)

\* C30: when either completion call of faq_chatbot fails (the answer call, or
\* the follow-up call after the answer call succeeded), the returned
\* conversation_history equals the caller's history with no turn appended,
\* follow_up_suggestions is empty, answer is an apology carrying the failure
\* message rather than the generated answer, and data_retrieved still holds
\* the grounding facts.
C30_FailureFrame ==
    FaqCompletionFailed =>
        /\ ~raised
        /\ heap[result.conversation_history] = FaqSupplied
        /\ result.follow_up_suggestions = <<>>
        /\ result.answer = "I apologize, but I encountered an error: " \o FaqFailure
        /\ result.error = FaqFailure
        /\ result.data_retrieved
               = FaqGrounding(args.question, args.tbl, args.dbRaises)

C30_Witness ==
    /\ FaqCompletionFailed
    /\ args.completion = [kind |-> "ok", content |-> " We have 8 cardiologists.\n"]
    /\ args.follow_up.kind = "raise"
    /\ Len(FaqSupplied) = 4
    /\ heap[result.conversation_history] = FaqSupplied
    /\ result.answer = "I apologize, but I encountered an error: " \o MSG_API
    /\ "specialty_providers" \in DOMAIN result.data_retrieved

\* the call returned after one of its completion requests failed
CompletionFailed ==
    /\ phase = "done"
    /\ ~raised
    /\ fn \in {"recommend_provider_by_symptoms", "semantic_search_providers",
               "faq_chatbot"}
    /\ \/ CompletionFails(args.completion)
       \/ fn = "faq_chatbot" /\ CompletionFails(args.follow_up)

\* C2: when the completion request fails, recommend_provider_by_symptoms,
\* semantic_search_providers and faq_chatbot return an object that carries
\* `error` and still holds every field of the task, empty or neutral.
C2_ErrorPayloadComplete ==
    CompletionFailed =>
        /\ "error" \in DOMAIN result
        /\ fn = "recommend_provider_by_symptoms" =>
               /\ TriageFields \subseteq DOMAIN result
               /\ result.recommended_specialties = <<>>
               /\ result.reasoning = ""
        /\ fn = "semantic_search_providers" =>
               /\ SearchFields \subseteq DOMAIN result
               /\ result.providers = <<>>
               /\ result.total_found = 0
        /\ fn = "faq_chatbot" =>
               /\ FaqFields \subseteq DOMAIN result
               /\ result.follow_up_suggestions = <<>>

=============================================================================
